---- MODULE Spec2Model ----
(***************************************************************************)
(* A model of the dynamic bandwidth limiter (package ratelimit):           *)
(*   token_bucket.go      TokenBucket (Allow, SetRate, getters)            *)
(*   rate_limiter_writer  RateLimitWriter.Write (the paced writer)         *)
(*   ratelimit.go         RateLimit.ServeHTTP, getOrCreateBucket, sweep    *)
(*   storage.go           MemoryStorage, RedisStorage                      *)
(*   interceptor.go       RateLimitInterceptor.ServeHTTP                   *)
(*                                                                         *)
(* Time.  Timestamps are kept relative to the present: now is 0 and a      *)
(* timestamp is 0 minus its age in ticks (one tick is one second).  A tick *)
(* of d ages every timestamp by d.  Ages are kept exactly up to Horizon;   *)
(* an older age is kept as the greatest threshold of the program it is     *)
(* known to have passed (the 5 second push threshold, the 30 minute idle   *)
(* threshold), so a kept age never exceeds the true one.  Token amounts    *)
(* are whole numbers: rate is tokens per tick.                             *)
(***************************************************************************)
EXTENDS Integers, Sequences, FiniteSets, TLC

(***************************************************************************)
(* Bounds of the model.                                                    *)
(***************************************************************************)
NumThreads == 2      \* concurrent requests (one worker each)
MaxRate == 2         \* signalled rates range over -1 .. MaxRate
MaxBurst == 2        \* configured burst multipliers range over 1 .. MaxBurst
MaxLen == 2          \* payload lengths of a Write range over 0 .. MaxLen
Horizon == 2         \* ages are kept exactly up to Horizon ticks
TokenFloor == 3      \* balances below -TokenFloor are not explored

(***************************************************************************)
(* Program constants (in ticks of one second, or bytes).                   *)
(***************************************************************************)
storageUpdateThreshold == 5
ExpiryThreshold == 1800
CleanupInterval == 300
MinWait == 1
DefaultWaitRate == 1024
ChunkDefault == 65536
ChunkMedium == 262144
ChunkLarge == 524288
RateMedium == 10485760
RateLarge == 52428800
StatusOK == 200
StatusNotFound == 404
RetryLimit == 3
RedisTTL == 1800
HealthInterval == 30
MaxFloat64 == 1000000   \* stands for math.MaxFloat64: above every balance and cap of the model

Threads == 1 .. NumThreads
Instances == 1 .. 2
Users == {"u1"}
BucketIds == 1 .. NumThreads
RateValues == (0 - 1) .. MaxRate     \* every rate the header parser lets through
ValidRates == 1 .. MaxRate           \* the rates of a valid signal
BurstValues == 1 .. MaxBurst
ShortTicks == {1, storageUpdateThreshold + 1}
LongTicks == {CleanupInterval, ExpiryThreshold + 1}

Min(a, b) == IF a < b THEN a ELSE b
Max(a, b) == IF a > b THEN a ELSE b
CeilDiv(a, b) == (a + b - 1) \div b

VARIABLES
    cfg,            \* the provisioned configuration (BurstMultiplier, Redis, ...)
    buckets,        \* the TokenBucket objects, by object id
    nBuckets,       \* how many TokenBucket objects have been allocated
    limiters,       \* rl.limiters of each instance: userID -> bucket id, 0 if absent
    limitersMutex,  \* rl.limitersMutex of each instance: 0, or the thread holding Lock
    tickerPending,  \* rl.cleanupTicker.C of each instance holds a tick
    msData,         \* MemoryStorage.data of each instance
    msMutex,        \* MemoryStorage.mutex of each instance: 0, or the task holding it
    th,             \* the request workers: position and locals
    sink,           \* the underlying response sink of each request
    audit,          \* observation of each bucket: what it has admitted and handed on
    shared,         \* observation of each userID across the instances
    http,           \* RateLimit.ServeHTTP of each request: position, captured response
    redis,          \* the Redis server and the RedisStorage of each instance
    call            \* the latest call of the Storage interface, as its caller saw it

vars == <<cfg, buckets, nBuckets, limiters, limitersMutex, tickerPending,
          msData, msMutex, th, sink, audit, shared, http, redis, call>>

(***************************************************************************)
(* Time.                                                                   *)
(***************************************************************************)
now == 0

\* The greatest kept age that is at most a: a itself up to Horizon, beyond it
\* the greatest of the thresholds + 1 that a has reached.
KeptAge(a) ==
    IF a <= Horizon THEN a
    ELSE IF a > ExpiryThreshold THEN ExpiryThreshold + 1
    ELSE IF a > storageUpdateThreshold THEN storageUpdateThreshold + 1
    ELSE Horizon

\* A timestamp t after d more ticks.
Aged(t, d) == now - KeptAge((now - t) + d)

\* time.Since(t)
Since(t) == now - t

(***************************************************************************)
(* MemoryStorage.                                                          *)
(***************************************************************************)
NoState == [found |-> FALSE, Tokens |-> 0, LastAccess |-> 0]

\* MemoryStorage.Get: the stored state, or the not-found error.
MemoryGet(data, userID) ==
    IF data[userID].found
    THEN [err |-> FALSE, tokens |-> data[userID].Tokens, lastAccess |-> data[userID].LastAccess]
    ELSE [err |-> TRUE, tokens |-> 0, lastAccess |-> 0]

\* MemoryStorage.Set
MemorySet(data, userID, tokens, lastAccess) ==
    [data EXCEPT ![userID] = [found |-> TRUE, Tokens |-> tokens, LastAccess |-> lastAccess]]

\* A Delete that empties the whole mapping.
MemoryDeleteAll(data, userID) == [u \in DOMAIN data |-> NoState]

\* MemoryStorage.Delete
MemoryDelete(data, userID) == [data EXCEPT ![userID] = NoState]

\* MemoryStorage.Close: a new, empty mapping.
MemoryClose(data) == [u \in DOMAIN data |-> NoState]

\* The states a MemoryStorage holds after d more ticks: it reads no clock,
\* only the timestamps it was given grow older.
MemoryAged(data, d) ==
    [u \in DOMAIN data |->
        IF data[u].found THEN [data[u] EXCEPT !.LastAccess = Aged(@, d)] ELSE data[u]]

(***************************************************************************)
(* RedisStorage.  redis holds the server (up: it answers; data: its keys)  *)
(* and, of each instance's RedisStorage, healthyFlag, the health ticker    *)
(* (healthPending: it has fired; healthStopped), the healthDone channel,   *)
(* the probe (probing: healthCheck has not returned) and the client        *)
(* (clientClosed).  A call of Get gives what it returns and the number of times it *)
(* called the server; a call of Set or Delete gives the error it returns,  *)
(* that number and what it leaves of redis.                                *)
(***************************************************************************)
NoKey == [found |-> FALSE, Tokens |-> 0, LastAccess |-> 0, SetAt |-> 0]

\* fallbackValues: the most tokens there are, now, no error.
fallbackValues == [err |-> FALSE, tokens |-> MaxFloat64, lastAccess |-> now]

\* A loop that makes all its attempts whatever the server answers.
RECURSIVE RetriedThrough(_, _)
RetriedThrough(k, answers) ==
    IF k >= RetryLimit THEN [err |-> ~answers[RetryLimit], attempts |-> RetryLimit]
    ELSE RetriedThrough(k + 1, answers)

\* The retry loop of Get, Set and Delete from attempt k on: answers[k] says
\* whether the server answers attempt k.  The loop ends at the first answer,
\* or with the error of the last attempt after RetryLimit attempts.
RECURSIVE Retried(_, _)
Retried(k, answers) ==
    IF k > RetryLimit THEN [err |-> TRUE, attempts |-> RetryLimit]
    ELSE IF answers[k] THEN [err |-> FALSE, attempts |-> k]
    ELSE Retried(k + 1, answers)

\* The answers of a server that is up, or down, for the whole call.
Steady(up) == [k \in 1 .. RetryLimit |-> up]

\* RedisStorage.Get: the fallback when unhealthy or when every attempt
\* failed, the not-found error for a key that is absent, else the stored state.
RedisGetTried(rs, i, userID, answers) ==
    LET loop == Retried(1, answers)
    IN  IF ~rs.healthyFlag[i]
        THEN [out |-> fallbackValues, attempts |-> 0]
        ELSE IF loop.err
        THEN [out |-> fallbackValues, attempts |-> loop.attempts]
        ELSE IF ~rs.data[userID].found
        THEN [out |-> [err |-> TRUE, tokens |-> 0, lastAccess |-> 0],
              attempts |-> loop.attempts]
        ELSE [out |-> [err |-> FALSE, tokens |-> rs.data[userID].Tokens,
                       lastAccess |-> rs.data[userID].LastAccess],
              attempts |-> loop.attempts]

RedisGet(rs, i, userID) == RedisGetTried(rs, i, userID, Steady(rs.up))

\* A script that arms the TTL of a new key only.
WrittenKeepsTTL(rs, userID, tokens, lastAccess) ==
    [rs EXCEPT !.data[userID] = [found |-> TRUE, Tokens |-> tokens,
                                  LastAccess |-> lastAccess,
                                  SetAt |-> IF rs.data[userID].found
                                            THEN rs.data[userID].SetAt ELSE now]]

\* The script of Set: HSET and EXPIRE in one step.
Written(rs, userID, tokens, lastAccess) ==
    [rs EXCEPT !.data[userID] = [found |-> TRUE, Tokens |-> tokens,
                                  LastAccess |-> lastAccess, SetAt |-> now]]

\* RedisStorage.Set: nothing when unhealthy; else the script, tried up to
\* RetryLimit times.
RedisSetTried(rs, i, userID, tokens, lastAccess, answers) ==
    LET loop == Retried(1, answers)
    IN  IF ~rs.healthyFlag[i]
        THEN [err |-> FALSE, attempts |-> 0, redis |-> rs]
        ELSE IF loop.err
        THEN [err |-> TRUE, attempts |-> loop.attempts, redis |-> rs]
        ELSE [err |-> FALSE, attempts |-> loop.attempts,
              redis |-> Written(rs, userID, tokens, lastAccess)]

\* A Set that does not look at healthyFlag.
RedisSetAlways(rs, i, userID, tokens, lastAccess) ==
    IF ~rs.up
    THEN [err |-> TRUE, attempts |-> RetryLimit, redis |-> rs]
    ELSE [err |-> FALSE, attempts |-> 1, redis |-> Written(rs, userID, tokens, lastAccess)]

RedisSet(rs, i, userID, tokens, lastAccess) ==
    RedisSetTried(rs, i, userID, tokens, lastAccess, Steady(rs.up))

\* RedisStorage.Delete: nothing when unhealthy; else DEL, tried up to
\* RetryLimit times.
RedisDeleteTried(rs, i, userID, answers) ==
    LET loop == Retried(1, answers)
    IN  IF ~rs.healthyFlag[i]
        THEN [err |-> FALSE, attempts |-> 0, redis |-> rs]
        ELSE IF loop.err
        THEN [err |-> TRUE, attempts |-> loop.attempts, redis |-> rs]
        ELSE [err |-> FALSE, attempts |-> loop.attempts,
              redis |-> [rs EXCEPT !.data[userID] = NoKey]]

RedisDelete(rs, i, userID) == RedisDeleteTried(rs, i, userID, Steady(rs.up))

\* RedisStorage.Close: the ticker stopped and healthDone closed; then, when
\* healthyFlag is set, the script that deletes every key under the prefix,
\* tried once (answer says whether the server answers it), and the client
\* closed; else nothing more.
RedisClose(rs, i, answer) ==
    LET stopped == [rs EXCEPT !.healthStopped[i] = TRUE, !.healthDone[i] = TRUE]
    IN  IF rs.healthyFlag[i]
        THEN [err |-> FALSE, attempts |-> 1,
              redis |-> [stopped EXCEPT !.clientClosed[i] = TRUE,
                                        !.data = IF answer THEN [u \in Users |-> NoKey]
                                                 ELSE @]]
        ELSE [err |-> FALSE, attempts |-> 0, redis |-> stopped]

\* A key after d more ticks: gone once its TTL has run out.
KeyAged(k, d) ==
    IF ~k.found THEN k
    ELSE IF Since(Aged(k.SetAt, d)) > RedisTTL THEN NoKey
    ELSE [k EXCEPT !.LastAccess = Aged(@, d), !.SetAt = Aged(@, d)]

(***************************************************************************)
(* TokenBucket.                                                            *)
(***************************************************************************)
NoBucket ==
    [rate |-> 0, tokens |-> 0, lastAccess |-> 0, lastStorageUpdate |-> 0,
     burstMultiplier |-> 1, userID |-> "u1", inst |-> 1, mutex |-> 0]

\* A bucket that starts full instead of empty.
NewTokenBucketFull(rate, got, userID, burstMultiplier, i) ==
    [rate |-> rate,
     tokens |-> IF got.err THEN rate * burstMultiplier ELSE got.tokens,
     lastAccess |-> IF got.err THEN now ELSE got.lastAccess,
     lastStorageUpdate |-> now,
     burstMultiplier |-> burstMultiplier,
     userID |-> userID, inst |-> i, mutex |-> 0]

\* NewTokenBucket: an empty bucket stamped now, overwritten by the stored
\* state when storage.Get returned no error.
NewTokenBucket(rate, got, userID, burstMultiplier, i) ==
    [rate |-> rate,
     tokens |-> IF got.err THEN 0 ELSE got.tokens,
     lastAccess |-> IF got.err THEN now ELSE got.lastAccess,
     lastStorageUpdate |-> now,
     burstMultiplier |-> burstMultiplier,
     userID |-> userID, inst |-> i, mutex |-> 0]

\* A refill that fills the bucket to its cap whatever time has passed.
RefillFull(b) ==
    [b EXCEPT !.lastAccess = now, !.tokens = b.rate * b.burstMultiplier]

\* The refill of Allow: lastAccess moves to now, rate * elapsed tokens are
\* added, and the balance is cut to rate * burstMultiplier.
Refill(b) ==
    LET elapsed == now - b.lastAccess
        newTokens == b.rate * elapsed
        sum == b.tokens + newTokens
        maxTokens == b.rate * b.burstMultiplier
    IN  [b EXCEPT !.lastAccess = now,
                  !.tokens = IF sum > maxTokens THEN maxTokens ELSE sum]

\* The check of Allow: are there enough tokens for count.
Enough(b, count) == ~(b.tokens < count)

\* The consumption of Allow.
Consume(b, count) == [b EXCEPT !.tokens = b.tokens - count]

\* An Allow that pushes the state every time it succeeds.
PushAlways(b) == TRUE

\* Whether Allow pushes the state to the storage.
PushDue(b) == Since(b.lastStorageUpdate) > storageUpdateThreshold

\* A mutex that excludes no one.
MutexNeverHeld(b) == TRUE

\* A mutex of a bucket can be taken (Lock, RLock) when no one holds Lock.
MutexFree(b) == b.mutex = 0


(***************************************************************************)
(* RateLimitWriter: pure parts of Write.                                   *)
(***************************************************************************)
\* A choice in which both boundary rates belong to the smaller size.
ChunkSizeForExclusive(rate) ==
    IF rate > RateMedium /\ rate <= RateLarge THEN ChunkMedium
    ELSE IF rate > RateLarge THEN ChunkLarge
    ELSE ChunkDefault

\* The chunk size chosen from the rate read at the start of Write.
ChunkSizeFor(rate) ==
    IF rate >= RateMedium /\ rate < RateLarge THEN ChunkMedium
    ELSE IF rate >= RateLarge THEN ChunkLarge
    ELSE ChunkDefault

\* The rate the wait is computed from: the bucket's, or 1024 when it is not positive.
WaitRate(rate) == IF rate <= 0 THEN DefaultWaitRate ELSE rate

\* The sleep after a refused Allow: (chunk - tokens) / rate, at least MinWait,
\* in whole ticks (a sleep ends no earlier than asked).
WaitTime(currentChunkSize, tokens, currentRate) ==
    LET waitTokens == currentChunkSize - tokens
    IN  IF waitTokens <= 0 THEN MinWait
        ELSE Max(MinWait, CeilDiv(waitTokens, currentRate))

(***************************************************************************)
(* The request workers.                                                    *)
(***************************************************************************)
\*   overtaken   observed: since getOrCreateBucket returned the bucket to this
\*               request, another request has set the bucket to another rate
NoThread ==
    [pc |-> "idle", inst |-> 1, userID |-> "u1", rateLimit |-> 0, bucket |-> 0,
     len |-> 0, written |-> 0, chunkSize |-> 0,
     currentChunkSize |-> 0, rate |-> 0, currentRate |-> 0, sleep |-> 0,
     wroteHeader |-> FALSE, n |-> 0, err |-> FALSE, overtaken |-> FALSE]

\* A header map, as far as the program reads it: the three signal headers
\* and one header of the response proper ("" is absent).
NoHeader == [redirect |-> "", userID |-> "", rateLimit |-> "", other |-> ""]

\* The real response sink (the http.ResponseWriter the server hands to
\* ServeHTTP): its header map, the status and headers it has sent (status 0:
\* none yet), the body it has taken, whether a Write of it has failed.
NoSink == [status |-> 0, header |-> NoHeader, sent |-> NoHeader,
           bytes |-> 0, chunks |-> <<>>, failed |-> FALSE]

\* WriteHeader of the real sink: the first call sends the status and the
\* header map as it is then.
RealWriteHeader(s, statusCode) ==
    IF s.status = 0 THEN [s EXCEPT !.status = statusCode, !.sent = s.header] ELSE s

\* Write of the real sink: the status goes first if none went yet; then n
\* bytes of the payload at offset are taken.
RealWrite(s, offset, n, err) ==
    LET h == RealWriteHeader(s, StatusOK)
    IN  [h EXCEPT !.bytes = @ + n,
                  !.chunks = IF n > 0 THEN Append(@, <<offset, n>>) ELSE @,
                  !.failed = @ \/ err]

\* ServeHTTP of one request, before it is called.
\*   statusCode, header, wroteHeader   the captureResponseWriter
\*   dispatches   how many times the next handler has been dispatched
\*   path         the path of the derived request
\*   result       what ServeHTTP returned: "nil" or "err" ("none": not yet)
\*   stageBytes   the body bytes the stage wrote in pass 1
\*   stageErr     the stage returned an error
\*   codes        the status codes the stage gave to WriteHeader in pass 2
\*   writer       the sink ServeHTTP gave to the dispatch under way: "crw" (the
\*                captureResponseWriter) or "w" (the real sink)
\*   ctxBucket    the bucket in the context of the request dispatched (0: none)
\*   stage        what RateLimitInterceptor.ServeHTTP handed to the next stage
\*   seen         the bucket GetTokenBucketFromContext gave to each invocation
\*                of RateLimitInterceptor.ServeHTTP (0: nil)
\*   p1err        pass 1 returned an error
NoStage == [sink |-> "none", wraps |-> "none", bucket |-> 0]

NoHttp ==
    [pc |-> "new", statusCode |-> StatusOK, header |-> NoHeader, wroteHeader |-> FALSE,
     dispatches |-> 0, path |-> "", result |-> "none",
     stageBytes |-> 0, stageErr |-> FALSE, codes |-> {},
     writer |-> "none", ctxBucket |-> 0, stage |-> NoStage, seen |-> <<>>,
     p1err |-> FALSE]

\* The Redis server and the RedisStorage objects when Redis is not configured.
NoRedis ==
    [up |-> TRUE, healthyFlag |-> [i \in Instances |-> TRUE],
     healthPending |-> [i \in Instances |-> FALSE],
     healthStopped |-> [i \in Instances |-> FALSE],
     healthDone |-> [i \in Instances |-> FALSE],
     probing |-> [i \in Instances |-> TRUE],
     clientClosed |-> [i \in Instances |-> FALSE],
     data |-> [u \in Users |-> NoKey]]

\* No call of the Storage interface yet.  seq alternates at every call, so
\* that two equal calls in a row are two calls.
NoCall == [op |-> "none", by |-> 1, err |-> FALSE, attempts |-> 0, seq |-> 0]

\* What is observed of a bucket:
\*   restored     it was created from a stored state
\*   rateChanged  SetRate has changed its rate since it was created
\*   admitted     the bytes Allow has admitted through it
\*   slack        rate * (time since creation) - admitted, kept no higher than
\*                MaxAdmitted
\*   marked       an interval has been started at a refill of Allow
\*   allowance    (balance at the start of the interval) + rate * (its length)
\*                - (bytes admitted in it), kept no higher than MaxAdmitted
\*   fallback     it was created from the fallback values of an unhealthy store
\*   evicted      the sweep has removed it from the registry
\*   atRefusal    the interval has been started by an Allow that returned false
\*   reads        how many times storage.Get has been called for it
NoAudit == [restored |-> FALSE, fallback |-> FALSE, rateChanged |-> FALSE,
            admitted |-> 0, slack |-> 0, marked |-> FALSE, allowance |-> 0,
            evicted |-> FALSE, atRefusal |-> FALSE, reads |-> 0]

\* What is observed of a userID served by several instances, from the start
\* of an interval in which all its buckets run at one rate:
\*   allowance    rate * burstMultiplier + rate * (length of the interval)
\*                - (bytes admitted in it by all instances together), kept no
\*                higher than MaxAdmitted
NoShared == [marked |-> FALSE, rate |-> 0, allowance |-> 0]

\* All the bytes the workers can ask Allow for: a budget that has reached it
\* cannot be overdrawn any more, so budgets are kept exactly only below it.
MaxAdmitted == NumThreads * MaxLen

\* An observed budget after d ticks at the bucket's rate.
Accrued(budget, b, d) == Min(budget + b.rate * d, MaxAdmitted)

\* The buckets whose pacing is observed from their creation: created empty,
\* at a rate that is not negative and has not been changed.
Paced(b) ==
    /\ b \in 1 .. nBuckets
    /\ ~audit[b].restored
    /\ ~audit[b].rateChanged
    /\ buckets[b].rate >= 0

\* The mutex of the storage of instance i can be taken by task t (Lock,
\* RLock), or t is inside a method of the storage and holds it already.
\* RedisStorage has no mutex.
StorageFree(i, t) == cfg.Redis \/ msMutex[i] \in {0, t}

\* A method of the storage that returns without unlocking.
StorageKeptBy(i, t) == msMutex

\* The deferred Unlock (RUnlock) of the method of the storage t is inside.
StorageReleasedBy(i, t) ==
    IF msMutex[i] = t THEN [msMutex EXCEPT ![i] = 0] ELSE msMutex

\* The storage the instance was provisioned with answers Get.
StorageGet(i, userID) ==
    IF cfg.Redis THEN RedisGet(redis, i, userID).out ELSE MemoryGet(msData[i], userID)

\* Provision: nothing registered, nothing stored, no request yet.
Provisioned ==
    /\ shared = [u \in Users |-> NoShared]
    /\ call = NoCall
    /\ http = [r \in Threads |-> NoHttp]
    /\ buckets = [b \in BucketIds |-> NoBucket]
    /\ nBuckets = 0
    /\ limiters = [i \in Instances |-> [u \in Users |-> 0]]
    /\ limitersMutex = [i \in Instances |-> 0]
    /\ tickerPending = [i \in Instances |-> FALSE]
    /\ msData = [i \in Instances |-> [u \in Users |-> NoState]]
    /\ msMutex = [i \in Instances |-> 0]
    /\ th = [r \in Threads |-> NoThread]
    /\ sink = [r \in Threads |-> NoSink]
    /\ audit = [b \in BucketIds |-> NoAudit]

\* One instance with the local storage.
Init ==
    /\ cfg \in [BurstMultiplier : BurstValues, Redis : {FALSE}, instances : {{1}}]
    /\ redis = NoRedis
    /\ Provisioned

\* Two instances provisioned with the same Redis server, which answered, or
\* did not answer, the Ping of NewRedisStorage.
RedisInit ==
    /\ cfg \in [BurstMultiplier : BurstValues, Redis : {TRUE}, instances : {Instances}]
    /\ redis \in {[NoRedis EXCEPT !.up = u, !.healthyFlag = [i \in Instances |-> u]] :
                     u \in BOOLEAN}
    /\ Provisioned

\* ServeHTTP, line 200: a signal with user id and a parsed rate calls getOrCreateBucket.
Calling(t, i, userID, rateLimit) ==
    [t EXCEPT !.pc = "g_read", !.inst = i, !.userID = userID, !.rateLimit = rateLimit]

\* A request of instance i whose signal has been read.
CallGetOrCreate(r, i, userID, rateLimit) ==
    /\ th[r].pc = "idle"
    /\ th' = [th EXCEPT ![r] = Calling(@, i, userID, rateLimit)]
    /\ UNCHANGED <<cfg, msMutex, call, shared, http, redis, buckets, nBuckets, limiters, limitersMutex, tickerPending,
                   msData, sink, audit>>

\* What getOrCreateBucket leaves when it returns the bucket to ServeHTTP: the
\* deferred Unlock has run.
Returned(t) == [t EXCEPT !.pc = "g_ret"]

ReleasedBy(r) ==
    IF limitersMutex[th[r].inst] = r THEN [limitersMutex EXCEPT ![th[r].inst] = 0]
    ELSE limitersMutex

\* getOrCreateBucket, lines 235-239: the lookup under RLock.
GRead(r) ==
    /\ th[r].pc = "g_read"
    /\ limitersMutex[th[r].inst] = 0
    /\ LET id == limiters[th[r].inst][th[r].userID]
       IN  th' = [th EXCEPT ![r].bucket = id,
                            ![r].pc = IF id # 0 THEN "g_rate" ELSE "g_lock"]
    /\ UNCHANGED <<cfg, msMutex, call, shared, http, redis, buckets, nBuckets, limiters, limitersMutex, tickerPending,
                   msData, sink, audit>>

\* getOrCreateBucket, lines 241 and 262: bucket.Rate() != rateLimit.
GRate(r) ==
    /\ th[r].pc = "g_rate"
    /\ MutexFree(buckets[th[r].bucket])
    /\ IF buckets[th[r].bucket].rate # th[r].rateLimit
       THEN /\ th' = [th EXCEPT ![r].pc = "g_set"]
            /\ UNCHANGED limitersMutex
       ELSE /\ th' = [th EXCEPT ![r] = Returned(th[r])]
            /\ limitersMutex' = ReleasedBy(r)
    /\ UNCHANGED <<cfg, msMutex, call, shared, http, redis, buckets, nBuckets, limiters, tickerPending, msData, sink, audit>>

\* A SetRate that leaves the rate as it is.
SetRateLost(b, rate) == b

\* A SetRate that empties the bucket.
SetRateEmptying(b, rate) == [b EXCEPT !.rate = rate, !.tokens = 0]

\* TokenBucket.SetRate
SetRate(b, rate) == [b EXCEPT !.rate = rate]

\* getOrCreateBucket, lines 243 and 264: bucket.SetRate(rateLimit), then return.
GSet(r) ==
    /\ th[r].pc = "g_set"
    /\ MutexFree(buckets[th[r].bucket])
    /\ buckets' = [buckets EXCEPT ![th[r].bucket] = SetRate(@, th[r].rateLimit)]
    /\ audit' = [audit EXCEPT ![th[r].bucket] =
                     IF buckets[th[r].bucket].rate # th[r].rateLimit
                     THEN [@ EXCEPT !.rateChanged = TRUE, !.slack = 0,
                                    !.marked = FALSE, !.allowance = 0,
                                    !.atRefusal = FALSE]
                     ELSE @]
    /\ shared' = IF buckets[th[r].bucket].rate # th[r].rateLimit
                 THEN [shared EXCEPT ![th[r].userID] = NoShared] ELSE shared
    /\ th' = [q \in Threads |->
                 IF q = r THEN Returned(th[r])
                 ELSE IF /\ th[q].pc = "g_ret"
                         /\ th[q].bucket = th[r].bucket
                         /\ buckets[th[r].bucket].rate # th[r].rateLimit
                      THEN [th[q] EXCEPT !.overtaken = TRUE]
                      ELSE th[q]]
    /\ limitersMutex' = ReleasedBy(r)
    /\ UNCHANGED <<cfg, msMutex, call, http, redis, nBuckets, limiters, tickerPending, msData, sink>>

\* The registry lock can be taken exclusively.
RegistryFree(i) == limitersMutex[i] = 0

\* getOrCreateBucket, line 257: Lock.
GLock(r) ==
    /\ th[r].pc = "g_lock"
    /\ RegistryFree(th[r].inst)
    /\ limitersMutex' = [limitersMutex EXCEPT ![th[r].inst] = r]
    /\ th' = [th EXCEPT ![r].pc = "g_check"]
    /\ UNCHANGED <<cfg, msMutex, call, shared, http, redis, buckets, nBuckets, limiters, tickerPending, msData, sink, audit>>

\* A second lookup that is skipped.
ExistsUnchecked(i, userID) == FALSE

\* Whether the second lookup, under Lock, finds the bucket.
Exists(i, userID) == limiters[i][userID] # 0

\* getOrCreateBucket, line 261: the second lookup, under Lock.
GCheck(r) ==
    /\ th[r].pc = "g_check"
    /\ IF Exists(th[r].inst, th[r].userID)
       THEN th' = [th EXCEPT ![r].bucket = limiters[th[r].inst][th[r].userID],
                             ![r].pc = "g_rate"]
       ELSE th' = [th EXCEPT ![r].pc = "g_create"]
    /\ UNCHANGED <<cfg, msMutex, call, shared, http, redis, buckets, nBuckets, limiters, limitersMutex, tickerPending,
                   msData, sink, audit>>

\* getOrCreateBucket, lines 278-281: NewTokenBucket, the registration, the return.
GCreate(r) ==
    /\ th[r].pc = "g_create"
    /\ nBuckets < NumThreads
    /\ StorageFree(th[r].inst, r)
    /\ msMutex' = StorageReleasedBy(th[r].inst, r)
    /\ LET id == nBuckets + 1
           i == th[r].inst
           got == StorageGet(i, th[r].userID)
       IN  /\ buckets' = [buckets EXCEPT ![id] =
                  NewTokenBucket(th[r].rateLimit, got, th[r].userID, cfg.BurstMultiplier, i)]
           /\ audit' = [audit EXCEPT ![id] =
                  [NoAudit EXCEPT !.restored = ~got.err,
                                  !.reads = 1,
                                  !.fallback = cfg.Redis /\ ~redis.healthyFlag[i]]]
           /\ shared' = IF shared[th[r].userID].rate # th[r].rateLimit
                        THEN [shared EXCEPT ![th[r].userID] = NoShared] ELSE shared
           /\ nBuckets' = id
           /\ limiters' = [limiters EXCEPT ![i][th[r].userID] = id]
           /\ th' = [th EXCEPT ![r] = [Returned(th[r]) EXCEPT !.bucket = id]]
    /\ limitersMutex' = ReleasedBy(r)
    /\ UNCHANGED <<cfg, call, http, redis, tickerPending, msData, sink>>

\* ServeHTTP, lines 200-205: the bucket getOrCreateBucket returned is put in
\* the context of the derived request.
Attach(r) ==
    /\ th[r].pc = "g_ret"
    /\ th' = [th EXCEPT ![r].pc = "attached", ![r].overtaken = FALSE]
    /\ UNCHANGED <<cfg, msMutex, call, shared, http, redis, buckets, nBuckets, limiters, limitersMutex, tickerPending,
                   msData, sink, audit>>

(***************************************************************************)
(* RateLimitWriter.Write and TokenBucket.Allow, step by step.              *)
(***************************************************************************)
\* Write has returned (n, err); its locals are gone.
WriteReturned(t, n, err) ==
    [t EXCEPT !.pc = "w_ret", !.n = n, !.err = err, !.written = 0, !.chunkSize = 0,
              !.currentChunkSize = 0, !.rate = 0, !.currentRate = 0, !.sleep = 0]

\* Write, lines 45-73: the implicit header, the empty payload, the rate read
\* once and the chunk size chosen from it.
WriteBegin(r, len) ==
    /\ th[r].pc = "attached"
    /\ th[r].bucket # 0
    /\ sink' = [sink EXCEPT ![r] = IF th[r].wroteHeader THEN @
                                   ELSE RealWriteHeader(@, StatusOK)]
    /\ IF len = 0
       THEN th' = [th EXCEPT ![r] = WriteReturned([th[r] EXCEPT !.wroteHeader = TRUE], 0, FALSE)]
       ELSE /\ MutexFree(buckets[th[r].bucket])
            /\ th' = [th EXCEPT ![r].pc = "w_loop", ![r].wroteHeader = TRUE,
                                ![r].len = len, ![r].written = 0,
                                ![r].rate = buckets[th[r].bucket].rate,
                                ![r].chunkSize = ChunkSizeFor(buckets[th[r].bucket].rate)]
    /\ UNCHANGED <<cfg, msMutex, call, shared, http, redis, buckets, nBuckets, limiters, limitersMutex, tickerPending,
                   msData, audit>>

\* A chunk that is never cut to what remains.
CurrentChunkWhole(chunkSize, remainingBytes) == chunkSize

\* Write, lines 77-81: the size of the next chunk.
CurrentChunkSize(chunkSize, remainingBytes) ==
    IF remainingBytes < chunkSize THEN remainingBytes ELSE chunkSize

\* Write, lines 75-81 and 146: the next chunk, or the return once all is written.
WriteLoop(r) ==
    /\ th[r].pc = "w_loop"
    /\ IF th[r].written < th[r].len
       THEN th' = [th EXCEPT ![r].pc = "a_lock",
                             ![r].currentChunkSize =
                                 CurrentChunkSize(th[r].chunkSize, th[r].len - th[r].written)]
       ELSE th' = [th EXCEPT ![r] = WriteReturned(th[r], th[r].written, FALSE)]
    /\ UNCHANGED <<cfg, msMutex, call, shared, http, redis, buckets, nBuckets, limiters, limitersMutex, tickerPending,
                   msData, sink, audit>>

\* All the buckets of a userID, in every instance, run at one rate.
OneRate(userID) ==
    \A b1, b2 \in 1 .. nBuckets :
        buckets[b1].userID = userID /\ buckets[b2].userID = userID
            => buckets[b1].rate = buckets[b2].rate

\* Allow, lines 61-76: Lock, then the refill.
\* The observer may start an interval at this refill: of the bucket (mark is
\* "bucket") or of its userID across the instances (mark is "user").
AllowLock(r, mark) ==
    /\ th[r].pc = "a_lock"
    /\ MutexFree(buckets[th[r].bucket])
    /\ Refill(buckets[th[r].bucket]).tokens >= 0 - TokenFloor
    /\ buckets' = [buckets EXCEPT ![th[r].bucket] = [Refill(@) EXCEPT !.mutex = r]]
    /\ th' = [th EXCEPT ![r].pc = "a_check"]
    /\ mark # "none" => buckets[th[r].bucket].rate > 0
    /\ audit' = IF mark = "bucket"
                THEN [audit EXCEPT ![th[r].bucket].marked = TRUE,
                                   ![th[r].bucket].atRefusal = FALSE,
                                   ![th[r].bucket].allowance =
                                       Refill(buckets[th[r].bucket]).tokens]
                ELSE audit
    /\ mark = "user" => OneRate(buckets[th[r].bucket].userID)
    /\ shared' = IF mark = "user"
                 THEN [shared EXCEPT ![buckets[th[r].bucket].userID] =
                          [marked |-> TRUE, rate |-> buckets[th[r].bucket].rate,
                           allowance |-> Min(MaxAdmitted,
                                             buckets[th[r].bucket].rate
                                                 * buckets[th[r].bucket].burstMultiplier)]]
                 ELSE shared
    /\ UNCHANGED <<cfg, msMutex, call, http, redis, nBuckets, limiters, limitersMutex, tickerPending,
                   msData, sink>>

\* A Write that gives up with an error when Allow refuses.
RefusedWithError(t) == WriteReturned(t, t.written, TRUE)

\* Write, lines 86-88: Allow has returned false; the wait is computed next.
Refused(t) == [t EXCEPT !.pc = "w_rate"]

\* A return of false that takes the tokens there are.
RejectedEmptied(b) == [b EXCEPT !.tokens = 0, !.mutex = 0]

\* Allow, lines 93-102 and 62: what a return of false leaves of the bucket;
\* the deferred Unlock has run.
Rejected(b) == [b EXCEPT !.mutex = 0]

\* Allow, lines 93-102: not enough tokens, return false; else go on.
\* The observer may take a return of false as the start of an interval of
\* the bucket (mark is "refusal"): the interval starts at the time.Now() of
\* that Allow, with the balance the refusal leaves.
AllowChecked(r, mark) ==
    /\ th[r].pc = "a_check"
    /\ IF Enough(buckets[th[r].bucket], th[r].currentChunkSize)
       THEN /\ mark = "none"
            /\ th' = [th EXCEPT ![r].pc = "a_consume"]
            /\ UNCHANGED <<buckets, audit>>
       ELSE /\ th' = [th EXCEPT ![r] = Refused(@)]
            /\ buckets' = [buckets EXCEPT ![th[r].bucket] = Rejected(@)]
            /\ audit' = IF mark = "refusal"
                        THEN [audit EXCEPT ![th[r].bucket].marked = TRUE,
                                           ![th[r].bucket].atRefusal = TRUE,
                                           ![th[r].bucket].allowance =
                                               Accrued(buckets[th[r].bucket].tokens,
                                                       buckets[th[r].bucket],
                                                       Since(buckets[th[r].bucket].lastAccess))]
                        ELSE audit
    /\ UNCHANGED <<cfg, msMutex, call, shared, http, redis, nBuckets, limiters, limitersMutex, tickerPending,
                   msData, sink>>

AllowCheck(r) == AllowChecked(r, "none")

\* The storage the instance was provisioned with takes a Set.
StorageSet(i, userID, tokens, lastAccess) ==
    IF cfg.Redis
    THEN /\ redis' = RedisSet(redis, i, userID, tokens, lastAccess).redis
         /\ UNCHANGED msData
    ELSE /\ msData' = [msData EXCEPT ![i] = MemorySet(@, userID, tokens, lastAccess)]
         /\ UNCHANGED redis

\* Allow, lines 105-121: consume, push to the storage when due, return true.
AllowConsume(r) ==
    /\ th[r].pc = "a_consume"
    /\ LET id == th[r].bucket
           b == Consume(buckets[id], th[r].currentChunkSize)
       IN  /\ IF PushDue(b)
              THEN /\ StorageFree(b.inst, r)
                   /\ StorageSet(b.inst, b.userID, b.tokens, b.lastAccess)
                   /\ msMutex' = StorageReleasedBy(b.inst, r)
                   /\ buckets' = [buckets EXCEPT ![id] =
                                    [b EXCEPT !.lastStorageUpdate = now, !.mutex = 0]]
              ELSE /\ UNCHANGED <<msData, msMutex, redis>>
                   /\ buckets' = [buckets EXCEPT ![id] = [b EXCEPT !.mutex = 0]]
           /\ audit' = [audit EXCEPT
                            ![id].admitted = @ + th[r].currentChunkSize,
                            ![id].slack = IF Paced(id) THEN @ - th[r].currentChunkSize ELSE @,
                            ![id].allowance =
                                IF audit[id].marked THEN @ - th[r].currentChunkSize ELSE @]
    /\ shared' = [shared EXCEPT ![buckets[th[r].bucket].userID].allowance =
                     IF shared[buckets[th[r].bucket].userID].marked
                     THEN @ - th[r].currentChunkSize ELSE @]
    /\ th' = [th EXCEPT ![r].pc = "w_write"]
    /\ UNCHANGED <<cfg, call, http, nBuckets, limiters, limitersMutex, tickerPending, sink>>

\* Write, lines 89-92: the rate the wait is computed from.
WaitReadRate(r) ==
    /\ th[r].pc = "w_rate"
    /\ MutexFree(buckets[th[r].bucket])
    /\ th' = [th EXCEPT ![r].pc = "w_tokens",
                        ![r].currentRate = WaitRate(buckets[th[r].bucket].rate)]
    /\ UNCHANGED <<cfg, msMutex, call, shared, http, redis, buckets, nBuckets, limiters, limitersMutex, tickerPending,
                   msData, sink, audit>>

\* Write, lines 95-114: the wait computed from Tokens(), and the sleep begun.
WaitSleep(r) ==
    /\ th[r].pc = "w_tokens"
    /\ MutexFree(buckets[th[r].bucket])
    /\ th' = [th EXCEPT ![r].pc = "w_sleep",
                        ![r].sleep = WaitTime(th[r].currentChunkSize,
                                              buckets[th[r].bucket].tokens,
                                              th[r].currentRate)]
    /\ UNCHANGED <<cfg, msMutex, call, shared, http, redis, buckets, nBuckets, limiters, limitersMutex, tickerPending,
                   msData, sink, audit>>

\* Write, line 114 back to line 86: the sleep is over, Allow is tried again.
WaitWake(r) ==
    /\ th[r].pc = "w_sleep"
    /\ th[r].sleep = 0
    /\ th' = [th EXCEPT ![r].pc = "a_lock", ![r].currentRate = 0]
    /\ UNCHANGED <<cfg, msMutex, call, shared, http, redis, buckets, nBuckets, limiters, limitersMutex, tickerPending,
                   msData, sink, audit>>

\* A Write that goes on to the next chunk when the sink has returned an error.
SinkWriteGoesOn(r, n, err) ==
    /\ th[r].pc = "w_write"
    /\ (~err) => n = th[r].currentChunkSize
    /\ sink' = [sink EXCEPT ![r] = RealWrite(@, th[r].written, n, err)]
    /\ th' = [th EXCEPT ![r].pc = "w_loop", ![r].written = @ + n]
    /\ UNCHANGED <<cfg, msMutex, call, shared, http, redis, buckets, nBuckets, limiters, limitersMutex, tickerPending,
                   msData, audit>>

\* Write, lines 126-133: the chunk goes to the underlying sink, which takes
\* it whole, or fails having taken n bytes of it.
SinkWrite(r, n, err) ==
    /\ th[r].pc = "w_write"
    /\ (~err) => n = th[r].currentChunkSize
    /\ sink' = [sink EXCEPT ![r] = RealWrite(@, th[r].written, n, err)]
    /\ IF err
       THEN th' = [th EXCEPT ![r] = WriteReturned(th[r], th[r].written + n, TRUE)]
       ELSE th' = [th EXCEPT ![r].pc = "w_loop", ![r].written = @ + n]
    /\ UNCHANGED <<cfg, msMutex, call, shared, http, redis, buckets, nBuckets, limiters, limitersMutex, tickerPending,
                   msData, audit>>

(***************************************************************************)
(* Time and the expiry sweep.                                              *)
(***************************************************************************)
\* d ticks pass: every timestamp ages, sleeps run down, the cleanup ticker
\* fires when its interval has passed.
Tick(d) ==
    /\ buckets' = [b \in BucketIds |->
                     IF b <= nBuckets
                     THEN [buckets[b] EXCEPT !.lastAccess = Aged(@, d),
                                             !.lastStorageUpdate = Aged(@, d)]
                     ELSE buckets[b]]
    /\ msData' = [i \in Instances |-> MemoryAged(msData[i], d)]
    /\ audit' = [b \in BucketIds |->
                     [audit[b] EXCEPT
                        !.slack = IF Paced(b) THEN Accrued(@, buckets[b], d) ELSE @,
                        !.allowance = IF audit[b].marked
                                      THEN Accrued(@, buckets[b], d) ELSE @]]
    /\ th' = [r \in Threads |-> [th[r] EXCEPT !.sleep = Max(0, @ - d)]]
    /\ tickerPending' = [i \in Instances |->
                            tickerPending[i] \/ (i \in cfg.instances /\ d >= CleanupInterval)]
    /\ redis' = [redis EXCEPT
                    !.data = [u \in Users |-> KeyAged(redis.data[u], d)],
                    !.healthPending = [i \in Instances |->
                        redis.healthPending[i]
                            \/ (/\ cfg.Redis /\ i \in cfg.instances
                                /\ ~redis.healthStopped[i]
                                /\ d >= HealthInterval)]]
    /\ shared' = [u \in Users |->
                     [shared[u] EXCEPT !.allowance =
                         IF shared[u].marked
                         THEN Min(@ + shared[u].rate * d, MaxAdmitted) ELSE @]]
    /\ UNCHANGED <<cfg, msMutex, call, http, nBuckets, limiters, limitersMutex, sink>>

\* A test of the time of the last push to the storage instead.
ExpiredByPush(b) == Since(b.lastStorageUpdate) > ExpiryThreshold

\* The sweep's test of one bucket.
Expired(b) == Since(b.lastAccess) > ExpiryThreshold

\* The buckets one run of the sweep removes from the registry of instance i.
Swept(i) ==
    {limiters[i][u] : u \in {v \in Users : /\ limiters[i][v] # 0
                                            /\ Expired(buckets[limiters[i][v]])}}

\* cleanupExpiredLimiters, lines 288-300: one run of the sweep, under the
\* Lock of the registry, reading LastAccess() of every bucket in it.
Sweep(i) ==
    /\ tickerPending[i]
    /\ RegistryFree(i)
    /\ \A u \in Users : limiters[i][u] # 0 => MutexFree(buckets[limiters[i][u]])
    /\ limiters' = [limiters EXCEPT ![i] = [u \in Users |->
                       IF limiters[i][u] \in Swept(i) THEN 0 ELSE limiters[i][u]]]
    /\ audit' = [b \in BucketIds |->
                    IF b \in Swept(i) THEN [audit[b] EXCEPT !.evicted = TRUE]
                    ELSE audit[b]]
    /\ tickerPending' = [tickerPending EXCEPT ![i] = FALSE]
    /\ UNCHANGED <<cfg, msMutex, call, shared, http, redis, buckets, nBuckets, limitersMutex, msData, th, sink>>

\* What the workers, the sinks and the clock do once a signal has been read.
Serve ==
    \/ \E r \in Threads : GRead(r)
    \/ \E r \in Threads : GRate(r)
    \/ \E r \in Threads : GSet(r)
    \/ \E r \in Threads : GLock(r)
    \/ \E r \in Threads : GCheck(r)
    \/ \E r \in Threads : GCreate(r)
    \/ \E r \in Threads : Attach(r)
    \/ \E r \in Threads, len \in 0 .. MaxLen : WriteBegin(r, len)
    \/ \E r \in Threads : WriteLoop(r)
    \/ \E r \in Threads, mark \in {"none", "bucket"} : AllowLock(r, mark)
    \/ \E r \in Threads : AllowCheck(r)
    \/ \E r \in Threads : AllowConsume(r)
    \/ \E r \in Threads : WaitReadRate(r)
    \/ \E r \in Threads : WaitSleep(r)
    \/ \E r \in Threads : WaitWake(r)
    \/ \E r \in Threads : SinkWrite(r, th[r].currentChunkSize, FALSE)
    \/ \E r \in Threads, n \in 0 .. MaxLen : n < th[r].currentChunkSize /\ SinkWrite(r, n, TRUE)
    \/ \E d \in ShortTicks : Tick(d)

\* Requests whose signals carry valid (positive) rates.
Next ==
    \/ \E r \in Threads, i \in cfg.instances, u \in Users, rate \in ValidRates :
           CallGetOrCreate(r, i, u, rate)
    \/ Serve

Spec == Init /\ [][Next]_vars

\* Requests whose signals carry any rate that parses as an integer.
AnyRateNext ==
    \/ \E r \in Threads, i \in cfg.instances, u \in Users, rate \in RateValues :
           CallGetOrCreate(r, i, u, rate)
    \/ Serve

AnyRateSpec == Init /\ [][AnyRateNext]_vars


(***************************************************************************)
(* The claims.                                                             *)
(***************************************************************************)
\* An Allow call on bucket b returns in this step: its Lock is released.
AllowReturns(b) == buckets[b].mutex # 0 /\ buckets'[b].mutex = 0

\* C1: the balance immediately after each Allow call returns satisfies
\* 0 <= tokens <= rate * burstMultiplier, whatever SetRate calls and elapsed
\* time came before.
C1_BalanceWithinBounds ==
    [][\A b \in BucketIds :
          AllowReturns(b) =>
              /\ 0 <= buckets'[b].tokens
              /\ buckets'[b].tokens <= buckets'[b].rate * buckets'[b].burstMultiplier]_vars


\* The bytes the sinks of the given workers have taken.
RECURSIVE SinkBytes(_)
SinkBytes(rs) ==
    IF rs = {} THEN 0
    ELSE LET r == CHOOSE x \in rs : TRUE IN sink[r].bytes + SinkBytes(rs \ {r})

\* The bytes delivered through bucket b.
Delivered(b) == SinkBytes({r \in Threads : th[r].bucket = b})

\* C4: for a bucket created empty at rate R, the bytes delivered through it
\* by time t after its creation never exceed R * t: no byte is delivered that
\* Allow has not admitted, and the bytes admitted never exceed R * t.  (slack
\* is R * t minus the bytes admitted: it never goes below 0.)
C4_PacingBound ==
    \A b \in BucketIds :
        Paced(b) => /\ Delivered(b) <= audit[b].admitted
                    /\ audit[b].slack >= 0

\* A payload has been written in full through a bucket created empty, at
\* burst multiplier 1.
C4_Witness ==
    \E r \in Threads :
        /\ th[r].pc = "w_ret" /\ th[r].n = MaxLen /\ ~th[r].err
        /\ Paced(th[r].bucket)
        /\ buckets[th[r].bucket].burstMultiplier = 1

\* The buckets created for a userID in an instance.
CreatedFor(i, u) ==
    {b \in 1 .. nBuckets : buckets[b].inst = i /\ buckets[b].userID = u}

\* getOrCreateBucket has returned to worker r.
HasBucket(r) == th[r].pc \notin {"idle", "g_read", "g_rate", "g_set", "g_lock",
                                  "g_check", "g_create"}

\* C5: under concurrent first-time requests for one userID, exactly one bucket
\* object is created for it and every caller receives that same object.
C5_OneBucketPerUser ==
    /\ \A i \in Instances, u \in Users : Cardinality(CreatedFor(i, u)) <= 1
    /\ \A r \in Threads :
          HasBucket(r) =>
              /\ th[r].bucket # 0
              /\ CreatedFor(th[r].inst, th[r].userID) = {th[r].bucket}

\* Every worker has got its bucket, after all of them found the registry empty.
C5_Witness ==
    /\ \A r \in Threads : HasBucket(r)
    /\ \A r1, r2 \in Threads : th[r1].bucket = th[r2].bucket

\* C6: when several requests write through their shared bucket, the bytes
\* admitted over any interval of length T are at most the balance at its start
\* plus rate * T.  (allowance is that budget minus the bytes admitted: it never
\* goes below 0.)
C6_SharedBudget == \A b \in BucketIds : audit[b].marked => audit[b].allowance >= 0

\* Two requests have both been admitted by their shared bucket and are about
\* to write, within one observed interval.
C6_Witness ==
    \E r1, r2 \in Threads :
        /\ r1 # r2
        /\ th[r1].pc = "w_write" /\ th[r2].pc = "w_write"
        /\ th[r1].bucket = th[r2].bucket
        /\ audit[th[r1].bucket].marked

(***************************************************************************)
(* The registry alone: concurrent getOrCreateBucket calls.                 *)
(***************************************************************************)
RegistryNext ==
    \/ \E r \in Threads, i \in cfg.instances, u \in Users, rate \in RateValues :
           CallGetOrCreate(r, i, u, rate)
    \/ \E r \in Threads : GRead(r)
    \/ \E r \in Threads : GRate(r)
    \/ \E r \in Threads : GSet(r)
    \/ \E r \in Threads : GLock(r)
    \/ \E r \in Threads : GCheck(r)
    \/ \E r \in Threads : GCreate(r)

RegistrySpec == Init /\ [][RegistryNext]_vars

(***************************************************************************)
(* One request served to its end, with a scheduler that lets every step    *)
(* that stays possible happen, a clock that keeps running and a sink that  *)
(* never fails.                                                            *)
(***************************************************************************)
\* The steps of worker r when it has the registry to itself.
Alone(r) ==
    \/ GRead(r)
    \/ GLock(r)
    \/ GCheck(r)
    \/ GCreate(r)
    \/ Attach(r)
    \/ \E len \in 0 .. MaxLen : WriteBegin(r, len)
    \/ WriteLoop(r)
    \/ AllowLock(r, "none")
    \/ AllowCheck(r)
    \/ AllowConsume(r)
    \/ WaitReadRate(r)
    \/ WaitSleep(r)
    \/ WaitWake(r)
    \/ SinkWrite(r, th[r].currentChunkSize, FALSE)

LiveNext ==
    \/ \E u \in Users, rate \in ValidRates : CallGetOrCreate(1, 1, u, rate)
    \/ Alone(1)
    \/ Tick(1)

LiveSpec == Init /\ [][LiveNext]_vars /\ WF_vars(Alone(1)) /\ WF_vars(Tick(1))

\* C3: a Write of a non-empty payload through a bucket whose rate is greater
\* than 0, at burst multiplier 1, onto a sink that never fails, eventually
\* returns.
C3_WriteReturns ==
    \A r \in Threads :
        (th[r].pc = "w_loop" /\ th[r].rate > 0 /\ cfg.BurstMultiplier = 1)
            ~> (th[r].pc = "w_ret")

(***************************************************************************)
(* Two instances on one Redis server, each serving one request at a time.  *)
(***************************************************************************)
\* The instance request r arrives at.
InstanceOf(r) == ((r - 1) % Cardinality(Instances)) + 1

RedisNext ==
    \/ \E r \in Threads, u \in Users, rate \in ValidRates :
           CallGetOrCreate(r, InstanceOf(r), u, rate)
    \/ \E r \in Threads : Alone(r)
    \/ \E r \in Threads : AllowLock(r, "user")
    \/ \E d \in ShortTicks : Tick(d)

RedisSpec == RedisInit /\ [][RedisNext]_vars

\* The server answers and every instance holds it healthy.
StoreHealthy == redis.up /\ \A i \in cfg.instances : redis.healthyFlag[i]

\* C7: with the distributed backend in good health, the bytes admitted for
\* one userID by all instances together over any interval of length T are at
\* most one shared budget, the burst cap plus rate * T.  (The allowance of the
\* userID is that budget minus the bytes admitted: it never goes below 0.)
C7_OneBudgetAcrossInstances ==
    StoreHealthy => \A u \in Users : shared[u].marked => shared[u].allowance >= 0

\* Allow returns to worker r in this step, and whether it returns true.
AllowAnswers(r) == th[r].pc = "a_check" /\ th'[r].pc # "a_check"
AllowedTrue(r) == th'[r].pc = "a_consume"

\* C8: a bucket seeded from the Get of a backend marked unhealthy admits
\* every Allow(count) while the backend stays unhealthy, whatever the count.
C8_FailOpenAdmitsAll ==
    [][\A r \in Threads :
          (/\ AllowAnswers(r)
           /\ audit[th[r].bucket].fallback
           /\ ~redis.healthyFlag[th[r].inst])
              => AllowedTrue(r)]_vars

(***************************************************************************)
(* RedisStorage on its own: callers of the Storage interface, the health   *)
(* probe of each instance, a server that stops and resumes answering.      *)
(***************************************************************************)
\* What the caller of Get, Set or Delete has seen.
Called(op, i, err, attempts) ==
    [op |-> op, by |-> i, err |-> err, attempts |-> attempts, seq |-> 1 - call.seq]

\* The balances and timestamps that callers store.
StoredTokens == 0 .. MaxRate
StoredTimes == {now, now - 1}

GetCall(i, userID) ==
    /\ call' = Called("Get", i, RedisGet(redis, i, userID).out.err,
                      RedisGet(redis, i, userID).attempts)
    /\ UNCHANGED <<cfg, msMutex, redis, shared, http, buckets, nBuckets, limiters, limitersMutex,
                   tickerPending, msData, th, sink, audit>>

SetCall(i, userID, tokens, lastAccess) ==
    LET res == RedisSet(redis, i, userID, tokens, lastAccess)
    IN  /\ redis' = res.redis
        /\ call' = Called("Set", i, res.err, res.attempts)
        /\ UNCHANGED <<cfg, msMutex, shared, http, buckets, nBuckets, limiters, limitersMutex,
                       tickerPending, msData, th, sink, audit>>

DeleteCall(i, userID) ==
    LET res == RedisDelete(redis, i, userID)
    IN  /\ redis' = res.redis
        /\ call' = Called("Delete", i, res.err, res.attempts)
        /\ UNCHANGED <<cfg, msMutex, shared, http, buckets, nBuckets, limiters, limitersMutex,
                       tickerPending, msData, th, sink, audit>>

\* healthCheck, lines 151-162: the ticker has fired; Ping decides the flag.
HealthCheck(i) ==
    /\ redis.probing[i]
    /\ redis.healthPending[i]
    /\ redis' = [redis EXCEPT !.healthPending[i] = FALSE,
                              !.healthyFlag[i] = redis.up /\ ~redis.clientClosed[i]]
    /\ UNCHANGED <<cfg, msMutex, call, shared, http, buckets, nBuckets, limiters, limitersMutex,
                   tickerPending, msData, th, sink, audit>>

\* The server stops answering, or answers again.
ServerTurns ==
    /\ redis' = [redis EXCEPT !.up = ~redis.up]
    /\ UNCHANGED <<cfg, msMutex, call, shared, http, buckets, nBuckets, limiters, limitersMutex,
                   tickerPending, msData, th, sink, audit>>

StoreNext ==
    \/ \E i \in cfg.instances, u \in Users : GetCall(i, u)
    \/ \E i \in cfg.instances, u \in Users, tokens \in StoredTokens, t \in StoredTimes :
           SetCall(i, u, tokens, t)
    \/ \E i \in cfg.instances, u \in Users : DeleteCall(i, u)
    \/ \E i \in cfg.instances : HealthCheck(i)
    \/ ServerTurns
    \/ \E d \in {1, HealthInterval, RedisTTL + 1} : Tick(d)

StoreSpec == RedisInit /\ [][StoreNext]_vars

\* The Storage interface is called in this step.
StorageCalled == call'.seq # call.seq

\* C9: while the backend is marked unhealthy, every Set and every Delete
\* returns nil, makes no call to the server and leaves the stored state as
\* it is.
C9_UnhealthySkipsStore ==
    [][(/\ StorageCalled
        /\ call'.op \in {"Set", "Delete"}
        /\ ~redis.healthyFlag[call'.by])
           => /\ ~call'.err
              /\ call'.attempts = 0
              /\ redis' = redis]_vars

\* An instance that holds the backend unhealthy has just been through a Set,
\* while the server, answering again, holds a state of the user.
C9_Witness ==
    /\ call.op = "Set"
    /\ call.attempts = 0
    /\ ~call.err
    /\ ~redis.healthyFlag[call.by]
    /\ redis.up
    /\ \E u \in Users : redis.data[u].found

(***************************************************************************)
(* RateLimit.ServeHTTP and RateLimitInterceptor.ServeHTTP around the next  *)
(* stage, for one request.  The stage is the environment: in               *)
(* pass 1 it writes to the captureResponseWriter, in pass 2 to the real    *)
(* sink or to the RateLimitWriter around it.                               *)
(***************************************************************************)
rest == <<cfg, msMutex, call, shared, redis, buckets, nBuckets, limiters, limitersMutex,
          tickerPending, msData, audit>>

HeaderNames == {"redirect", "userID", "rateLimit", "other"}
StatusCodes == {StatusOK, StatusNotFound}

\* The rate header values: the numerals of RateValues and one that is no number.
RateStrings == {ToString(v) : v \in RateValues} \cup {"abc"}

\* The values the stage gives to a header.
HeaderValues(name) ==
    CASE name = "redirect" -> {"/file"}
      [] name = "userID" -> Users
      [] name = "rateLimit" -> RateStrings
      [] OTHER -> {"text"}

\* A parse that takes what is no number for 0.
ParseIntLenient(s) ==
    IF \E v \in RateValues : ToString(v) = s
    THEN [err |-> FALSE, value |-> CHOOSE v \in RateValues : ToString(v) = s]
    ELSE [err |-> FALSE, value |-> 0]

\* strconv.ParseInt(s, 10, 64)
ParseInt(s) ==
    IF \E v \in RateValues : ToString(v) = s
    THEN [err |-> FALSE, value |-> CHOOSE v \in RateValues : ToString(v) = s]
    ELSE [err |-> TRUE, value |-> 0]

\* A RateLimitInterceptor that wraps every sink, with or without a bucket.
InterceptWrapsAlways(w, bucket) == [sink |-> "rlw", wraps |-> w, bucket |-> bucket]

\* RateLimitInterceptor.ServeHTTP, lines 400-417: the sink the next stage is
\* handed, for the sink w and the bucket of the request's context.  Without a
\* bucket it is w; with one it is a RateLimitWriter around w, bound to it.
Intercept(w, bucket) ==
    IF bucket = 0
    THEN [sink |-> w, wraps |-> "none", bucket |-> 0]
    ELSE [sink |-> "rlw", wraps |-> w, bucket |-> bucket]

\* next.ServeHTTP(w, req): the chain is dispatched with the sink w and a
\* request of that path whose context holds the bucket; the chain runs
\* RateLimitInterceptor.ServeHTTP in front of the stage.
Dispatched(h, w, path, bucket) ==
    [h EXCEPT !.dispatches = @ + 1, !.writer = w, !.path = path,
              !.ctxBucket = bucket, !.stage = Intercept(w, bucket),
              !.seen = Append(@, bucket)]

\* A second dispatch that hands on the captureResponseWriter of pass 1.
SecondDispatchToShim(h, accelRedirect, bucket) ==
    [Dispatched(h, "crw", accelRedirect, bucket) EXCEPT !.pc = "pass2"]

\* ServeHTTP, lines 224-230: the derived request, with the redirect path and
\* the context, is dispatched with the real sink.
SecondDispatch(h, accelRedirect, bucket) ==
    [Dispatched(h, "w", accelRedirect, bucket) EXCEPT !.pc = "pass2"]

\* ServeHTTP, lines 157-164: the capture writer is made, pass 1 is dispatched.
Arrive(r, i) ==
    /\ http[r].pc = "new"
    /\ http' = [http EXCEPT ![r] = [Dispatched(@, "crw", "/", 0) EXCEPT !.pc = "pass1"]]
    /\ th' = [th EXCEPT ![r].inst = i]
    /\ UNCHANGED <<rest, sink>>

\* The stage sets a header in pass 1: captureResponseWriter.Header().
P1SetHeader(r, name, value) ==
    /\ http[r].pc = "pass1"
    /\ http[r].header[name] = ""
    /\ http' = [http EXCEPT ![r].header[name] = value]
    /\ UNCHANGED <<rest, th, sink>>

\* captureResponseWriter.WriteHeader
CaptureWriteHeader(h, statusCode) ==
    IF ~h.wroteHeader THEN [h EXCEPT !.statusCode = statusCode, !.wroteHeader = TRUE] ELSE h

P1WriteHeader(r, statusCode) ==
    /\ http[r].pc = "pass1"
    /\ http' = [http EXCEPT ![r] = CaptureWriteHeader(@, statusCode)]
    /\ UNCHANGED <<rest, th, sink>>

\* captureResponseWriter.Write: the implicit WriteHeader, then the Write of
\* the wrapped writer.
P1Write(r, n) ==
    /\ http[r].pc = "pass1"
    /\ http[r].stageBytes = 0
    /\ http' = [http EXCEPT ![r] = [CaptureWriteHeader(@, StatusOK) EXCEPT !.stageBytes = n]]
    /\ sink' = [sink EXCEPT ![r] = RealWrite(@, 0, n, FALSE)]
    /\ UNCHANGED <<rest, th>>

\* A ServeHTTP that goes on to the captured headers whatever pass 1 returned.
P1ReturnGoesOn(r, err) ==
    /\ http[r].pc = "pass1"
    /\ http' = [http EXCEPT ![r].pc = "inspect", ![r].stageErr = err, ![r].p1err = err]
    /\ UNCHANGED <<rest, th, sink>>

\* ServeHTTP, lines 164-168: pass 1 returns; its error is returned at once.
P1Return(r, err) ==
    /\ http[r].pc = "pass1"
    /\ http' = [http EXCEPT ![r].pc = IF err THEN "done" ELSE "inspect",
                            ![r].result = IF err THEN "err" ELSE "none",
                            ![r].stageErr = err, ![r].p1err = err]
    /\ UNCHANGED <<rest, th, sink>>

\* ServeHTTP, lines 171-230: the captured headers are read.  Without the
\* redirect header nil is returned.  With it, getOrCreateBucket is called
\* when user id and rate are there and the rate parses; else the derived
\* request is dispatched with no bucket in its context.
Inspect(r) ==
    /\ http[r].pc = "inspect"
    /\ LET accelRedirect == http[r].header.redirect
           userID == http[r].header.userID
           rateLimitStr == http[r].header.rateLimit
       IN  IF accelRedirect = ""
           THEN /\ http' = [http EXCEPT ![r].pc = "done", ![r].result = "nil"]
                /\ UNCHANGED th
           ELSE IF userID # "" /\ rateLimitStr # "" /\ ~ParseInt(rateLimitStr).err
                THEN /\ http' = [http EXCEPT ![r].pc = "bucket"]
                     /\ th' = [th EXCEPT ![r] = Calling(@, th[r].inst, userID,
                                                         ParseInt(rateLimitStr).value)]
                ELSE /\ http' = [http EXCEPT ![r] = SecondDispatch(@, accelRedirect, 0)]
                     /\ UNCHANGED th
    /\ UNCHANGED <<rest, sink>>

\* ServeHTTP, lines 205-230: with the bucket in its context the derived
\* request is dispatched.
Dispatch2(r) ==
    /\ http[r].pc = "bucket"
    /\ th[r].pc = "attached"
    /\ http' = [http EXCEPT ![r] = SecondDispatch(@, http[r].header.redirect, th[r].bucket)]
    /\ UNCHANGED <<rest, th, sink>>

\* The worker of a request writes through the RateLimitWriter only once the
\* stage of pass 2 has been handed it.
HandedWriter(r) ==
    th[r].pc = "attached" =>
        /\ http[r].pc = "pass2"
        /\ http[r].stage.sink = "rlw"
        /\ http[r].stage.bucket = th[r].bucket

\* Pass 2 has reached the stage and no Write is under way.
AtStage(r) == http[r].pc = "pass2" /\ th[r].pc \in {"idle", "attached", "w_ret"}

\* The stage sets a header in pass 2: the header map of the real sink, which
\* RateLimitWriter.Header() hands on.
P2SetHeader(r, name, value) ==
    /\ AtStage(r)
    /\ sink[r].header[name] = ""
    /\ sink' = [sink EXCEPT ![r].header[name] = value]
    /\ UNCHANGED <<rest, th, http>>

\* The stage calls WriteHeader in pass 2: of the real sink, or
\* RateLimitWriter.WriteHeader, which hands the first call on.
P2WriteHeader(r, statusCode) ==
    /\ AtStage(r)
    /\ http' = [http EXCEPT ![r].codes = @ \cup {statusCode}]
    /\ IF http[r].stage.sink # "rlw"
       THEN /\ sink' = [sink EXCEPT ![r] = RealWriteHeader(@, statusCode)]
            /\ UNCHANGED th
       ELSE /\ sink' = [sink EXCEPT ![r] = IF th[r].wroteHeader THEN @
                                           ELSE RealWriteHeader(@, statusCode)]
            /\ th' = [th EXCEPT ![r].wroteHeader = TRUE]
    /\ UNCHANGED rest

\* The stage writes to the real sink in pass 2, no bucket being attached.
P2Write(r, n, err) ==
    /\ AtStage(r)
    /\ http[r].stage.sink = "w"
    /\ sink[r].bytes = http[r].stageBytes
    /\ sink' = [sink EXCEPT ![r] = RealWrite(@, 0, n, err)]
    /\ UNCHANGED <<rest, th, http>>

\* A handler that returns nil whatever the next handler returned.
Swallowed(err) == FALSE

\* RateLimitInterceptor.ServeHTTP, lines 404 and 417: return next.ServeHTTP(...).
InterceptReturns(err) == err

\* RateLimit.ServeHTTP, line 230: return rl.next.ServeHTTP(w, newReq).
ServeReturns(err) == err

\* A ServeHTTP that reads the headers again when pass 2 has returned.
P2ReturnInspects(r, err) ==
    /\ AtStage(r)
    /\ http' = [http EXCEPT ![r].pc = "inspect", ![r].stageErr = err]
    /\ th' = [th EXCEPT ![r].pc = "idle"]
    /\ UNCHANGED <<rest, sink>>

\* The stage returns in pass 2, to RateLimitInterceptor.ServeHTTP, which
\* returns to RateLimit.ServeHTTP, which returns.
P2Return(r, err) ==
    /\ AtStage(r)
    /\ http' = [http EXCEPT ![r].pc = "done",
                            ![r].result = IF ServeReturns(InterceptReturns(err))
                                          THEN "err" ELSE "nil",
                            ![r].stageErr = err]
    /\ th' = [th EXCEPT ![r].pc = "served"]
    /\ UNCHANGED <<rest, sink>>

HttpNext ==
    \/ \E i \in cfg.instances : Arrive(1, i)
    \/ \E name \in HeaderNames :
           \E value \in HeaderValues(name) : P1SetHeader(1, name, value)
    \/ \E code \in StatusCodes : P1WriteHeader(1, code)
    \/ \E n \in 1 .. MaxLen : P1Write(1, n)
    \/ \E err \in BOOLEAN : P1Return(1, err)
    \/ Inspect(1)
    \/ Dispatch2(1)
    \/ P2SetHeader(1, "other", "text")
    \/ \E code \in StatusCodes : P2WriteHeader(1, code)
    \/ \E n \in 1 .. MaxLen, err \in BOOLEAN : P2Write(1, n, err)
    \/ \E err \in BOOLEAN : P2Return(1, err)
    \/ (HandedWriter(1) /\ Alone(1))
    \/ \E n \in 0 .. MaxLen : n < th[1].currentChunkSize /\ SinkWrite(1, n, TRUE)
    \/ \E d \in ShortTicks : Tick(d)

HttpSpec == Init /\ [][HttpNext]_vars

\* What the client gets of a sink once the handler has returned: the server
\* sends the status 200 and the header map as it is if nothing was sent.
StatusSent(s) == IF s.status = 0 THEN StatusOK ELSE s.status
HeaderSent(s) == IF s.status = 0 THEN s.header ELSE s.sent

\* ServeHTTP has returned for a pass-1 response that carries no redirect
\* header, pass 1 having returned no error.
NoRedirectServed(r) ==
    http[r].pc = "done" /\ ~http[r].stageErr /\ http[r].header.redirect = ""

\* C2: when the pass-1 response carries no X-Accel-Redirect header, the chain
\* is dispatched exactly once, the real sink receives exactly the status
\* code, the headers and the body bytes the stage wrote, and nil is returned.
C2_Passthrough ==
    \A r \in Threads :
        NoRedirectServed(r) =>
            /\ http[r].dispatches = 1
            /\ http[r].result = "nil"
            /\ StatusSent(sink[r]) = http[r].statusCode
            /\ HeaderSent(sink[r]) = http[r].header
            /\ sink[r].bytes = http[r].stageBytes

\* C10: a shortage of tokens only delays.  Write returns an error only when
\* the sink returned one, and without error only with the whole payload
\* written; ServeHTTP returns an error only when the stage returned one; the
\* status the sink sends is 200 or one the stage gave.
C10_NeverRefuses ==
    \A r \in Threads :
        /\ th[r].err => sink[r].failed
        /\ (th[r].pc = "w_ret" /\ ~th[r].err) => th[r].n = th[r].len
        /\ http[r].result = "err" => http[r].stageErr
        /\ sink[r].status \in {0, StatusOK} \cup http[r].codes

\* In pass 2 a Write is asleep, Allow having refused its chunk for lack of
\* tokens, and nothing has been returned.
C10_Witness ==
    \E r \in Threads :
        /\ http[r].pc = "pass2" /\ http[r].result = "none"
        /\ th[r].pc = "w_sleep" /\ th[r].sleep > 0
        /\ ~Enough(buckets[th[r].bucket], th[r].currentChunkSize)

(***************************************************************************)
(* One request from its arrival to the return of pass 2, the stage writing *)
(* to the sink it is handed, while another request of the same instance    *)
(* signals a rate for the same userID.                                     *)
(***************************************************************************)
\* The steps of getOrCreateBucket.
Registry(r) ==
    \/ GRead(r)
    \/ GRate(r)
    \/ GSet(r)
    \/ GLock(r)
    \/ GCheck(r)
    \/ GCreate(r)

SignalNext ==
    \/ \E i \in cfg.instances : Arrive(1, i)
    \/ \E name \in HeaderNames :
           \E value \in HeaderValues(name) : P1SetHeader(1, name, value)
    \/ \E code \in StatusCodes : P1WriteHeader(1, code)
    \/ \E err \in BOOLEAN : P1Return(1, err)
    \/ Inspect(1)
    \/ Registry(1)
    \/ Attach(1)
    \/ Dispatch2(1)
    \/ \E name \in {"other", "redirect"} :
           \E value \in HeaderValues(name) : P2SetHeader(1, name, value)
    \/ \E code \in StatusCodes : P2WriteHeader(1, code)
    \/ \E err \in BOOLEAN : P2Write(1, 1, err)
    \/ \E err \in BOOLEAN : P2Return(1, err)
    \/ \E i \in cfg.instances, u \in Users, rate \in ValidRates :
           CallGetOrCreate(2, i, u, rate)
    \/ Registry(2)

SignalSpec == Init /\ [][SignalNext]_vars

\* The rate header holds a decimal integer.
Numeric(str) == \E v \in RateValues : ToString(v) = str

\* ServeHTTP has read the captured headers of a pass 1 that returned no error.
Inspected(r) == http[r].pc \notin {"new", "pass1", "inspect"} /\ ~http[r].p1err

\* The pass-1 response carries the redirect header, but no user id, no rate,
\* or a rate that is no number.
Unlimited(r) ==
    /\ http[r].header.redirect # ""
    /\ \/ http[r].header.userID = ""
       \/ http[r].header.rateLimit = ""
       \/ ~Numeric(http[r].header.rateLimit)

\* C11: when the pass-1 response carries X-Accel-Redirect but the user id or
\* the rate is missing, or the rate is not numeric, the second dispatch to the
\* redirect path still happens, with no bucket in the context of the derived
\* request, getOrCreateBucket is not called, and no error comes of it.
C11_UnlimitedRedirect ==
    \A r \in Threads :
        (Inspected(r) /\ Unlimited(r)) =>
            /\ http[r].dispatches = 2
            /\ http[r].path = http[r].header.redirect
            /\ http[r].ctxBucket = 0
            /\ th[r].pc \in {"idle", "served"} /\ th[r].bucket = 0
            /\ http[r].result = "err" => http[r].stageErr

\* A redirect whose rate header is no number has been served without error.
C11_Witness ==
    \E r \in Threads :
        /\ http[r].pc = "done" /\ http[r].result = "nil"
        /\ http[r].header.redirect # "" /\ http[r].header.userID # ""
        /\ http[r].header.rateLimit = "abc"

\* The pass-1 response carries the redirect header, a user id and a rate that
\* is an integer.
Signalled(r) ==
    /\ http[r].header.redirect # ""
    /\ http[r].header.userID # ""
    /\ Numeric(http[r].header.rateLimit)

\* The rate the pass-1 response signals.
SignalledRate(r) == ParseInt(http[r].header.rateLimit).value

\* C12: a bucket is attached only when the rate header parses as a positive
\* integer.  For a rate of zero or below the redirect happens with no bucket
\* in the context, and no bucket of the registry has a rate that is not
\* positive.
C12_PositiveRateOnly ==
    /\ \A r \in Threads :
          (Inspected(r) /\ Signalled(r) /\ SignalledRate(r) <= 0) =>
              /\ http[r].pc = "done" => http[r].dispatches = 2
              /\ http[r].dispatches = 2 => http[r].ctxBucket = 0
    /\ \A i \in Instances, u \in Users :
          limiters[i][u] # 0 => buckets[limiters[i][u]].rate > 0

\* The bucket getOrCreateBucket returned to request r is put in the context
\* in this step.
Attaches(r) == th[r].pc = "g_ret" /\ th'[r].pc = "attached"

\* The derived request of r is dispatched in this step, a bucket having been
\* attached.
DispatchesWithBucket(r) == http[r].pc = "bucket" /\ http'[r].pc = "pass2"

\* The second dispatch gets the real sink and the redirect path, and its
\* context holds the bucket getOrCreateBucket took from the registry of the
\* instance, or put there, for the user id.
SecondPassCarries(r) ==
    /\ http'[r].dispatches = 2
    /\ http'[r].writer = "w"
    /\ http'[r].path = http[r].header.redirect
    /\ http'[r].ctxBucket = th[r].bucket
    /\ th[r].bucket # 0
    /\ th[r].bucket \in CreatedFor(th[r].inst, http[r].header.userID)

\* C13 as stated: when the pass-1 response carries X-Accel-Redirect, a user
\* id and a valid rate, the second dispatch receives the real sink and a
\* derived request with the redirect path whose context carries the
\* registry's bucket of the user id, and the bucket's rate equals the
\* signalled rate at the moment it is attached.
C13_RateAtAttach ==
    [][\A r \in Threads :
          /\ DispatchesWithBucket(r) => SecondPassCarries(r)
          /\ (Attaches(r) /\ th[r].rateLimit > 0) =>
                 buckets[th[r].bucket].rate = th[r].rateLimit]_vars

\* C13, amended: the same, but the bucket's rate equals the signalled rate at
\* the moment it is attached unless another request for the same user id has
\* set the bucket to a different rate since getOrCreateBucket returned it.
C13_RateAtAttachUnlessOvertaken ==
    [][\A r \in Threads :
          /\ DispatchesWithBucket(r) => SecondPassCarries(r)
          /\ (Attaches(r) /\ th[r].rateLimit > 0 /\ ~th[r].overtaken) =>
                 buckets[th[r].bucket].rate = th[r].rateLimit]_vars

\* Pass 2 of a request has been dispatched with a bucket that another request
\* created at another rate: SetRate has brought it to the signalled rate.
C13_Witness ==
    \E r \in Threads :
        /\ http[r].pc = "pass2" /\ http[r].ctxBucket # 0
        /\ http[r].stage.bucket = http[r].ctxBucket
        /\ audit[http[r].ctxBucket].rateChanged
        /\ buckets[http[r].ctxBucket].rate = SignalledRate(r)
        /\ SignalledRate(r) > 0

\* C14: if the pass-1 dispatch returns an error, ServeHTTP returns that error
\* at once: no second dispatch, no call of getOrCreateBucket, no bucket in any
\* context, even when the captured headers hold X-Accel-Redirect.
C14_Pass1ErrorReturned ==
    \A r \in Threads :
        http[r].p1err =>
            /\ http[r].pc = "done" /\ http[r].result = "err"
            /\ http[r].dispatches = 1
            /\ http[r].ctxBucket = 0
            /\ th[r].pc = "idle" /\ th[r].bucket = 0

\* Pass 1 has returned an error after the stage had set the redirect header,
\* a user id and a valid rate.
C14_Witness ==
    \E r \in Threads :
        /\ http[r].p1err
        /\ Signalled(r) /\ SignalledRate(r) > 0

\* C15: what the second dispatch returns, an error or nil, is what ServeHTTP
\* returns, RateLimitInterceptor.ServeHTTP handing it on unchanged, with or
\* without a bucket attached.
C15_ReturnUnchanged ==
    \A r \in Threads :
        (http[r].pc = "done" /\ http[r].dispatches = 2) =>
            (http[r].result = "err") = http[r].stageErr

\* The stage of pass 2 has returned an error through the handlers, a bucket
\* being attached.
C15_Witness ==
    \E r \in Threads :
        /\ http[r].pc = "done" /\ http[r].dispatches = 2
        /\ http[r].ctxBucket # 0
        /\ http[r].stageErr /\ http[r].result = "err"

\* C16: the chain is dispatched at most twice for one request; the response
\* of pass 2 is not inspected, so that a pass-2 response with X-Accel-Redirect
\* causes no third dispatch, and ServeHTTP has returned once pass 2 has.
C16_AtMostTwoDispatches ==
    \A r \in Threads :
        /\ http[r].dispatches <= 2
        /\ Len(http[r].seen) = http[r].dispatches
        /\ http[r].pc = "done" => http[r].result # "none"
        /\ (http[r].stageErr /\ ~http[r].p1err) => http[r].pc = "done"

\* ServeHTTP has returned after a pass 2 whose response carries the redirect
\* header itself.
C16_Witness ==
    \E r \in Threads :
        /\ http[r].pc = "done" /\ http[r].dispatches = 2
        /\ sink[r].header.redirect # ""

\* A rate is valid when it is a positive number of bytes per second.
ValidRate(v) == v > 0

\* C17: for a request whose pass-1 response lacks the redirect header,
\* getOrCreateBucket is not called, nothing is attached and no invocation of
\* RateLimitInterceptor.ServeHTTP finds a bucket in the context; an invocation
\* finds one only in the second dispatch that follows a signal with a user id
\* and a valid rate.
C17_BucketOnlyAfterSignal ==
    \A r \in Threads :
        /\ (Inspected(r) /\ http[r].header.redirect = "") =>
               /\ http[r].pc = "done" /\ http[r].dispatches = 1
               /\ th[r].pc = "idle" /\ th[r].bucket = 0
        /\ \A k \in 1 .. Len(http[r].seen) :
               http[r].seen[k] # 0 =>
                   /\ k = 2
                   /\ Signalled(r)
                   /\ ValidRate(SignalledRate(r))

\* The writer of a request is at work on the bucket of its context.
Writing(r) == th[r].pc \in {"w_loop", "a_lock", "a_check", "a_consume", "w_rate",
                            "w_tokens", "w_sleep", "w_write", "w_ret"}

\* C18: RateLimitInterceptor.ServeHTTP hands the next stage the sink it was
\* given if and only if the context holds no bucket; with a bucket it hands on
\* a RateLimitWriter around that sink, bound to that bucket, and the stage's
\* writes go through that bucket.
C18_WrapsIffBucket ==
    \A r \in Threads :
        http[r].dispatches >= 1 =>
            /\ (http[r].stage.sink = http[r].writer) = (http[r].ctxBucket = 0)
            /\ http[r].ctxBucket # 0 =>
                   http[r].stage = [sink |-> "rlw", wraps |-> http[r].writer,
                                    bucket |-> http[r].ctxBucket]
            /\ Writing(r) =>
                   /\ http[r].stage.sink = "rlw"
                   /\ th[r].bucket = http[r].stage.bucket
                   /\ http[r].stage.wraps = "w"

\* A chunk admitted by the attached bucket is about to go through the
\* RateLimitWriter to the real sink.
C18_Witness ==
    \E r \in Threads :
        /\ th[r].pc = "w_write"
        /\ http[r].stage.sink = "rlw" /\ http[r].stage.bucket = th[r].bucket

(***************************************************************************)
(* The requests of one instance with the local storage, the clock going    *)
(* on for seconds or for more than the idle threshold, and the sweep.      *)
(***************************************************************************)
SweepNext ==
    \/ \E r \in Threads, u \in Users : CallGetOrCreate(r, 1, u, 1)
    \/ \E r \in Threads : GRate(r)
    \/ \E r \in Threads : Alone(r)
    \/ \E d \in ShortTicks \cup {ExpiryThreshold + 1} : Tick(d)
    \/ Sweep(1)

SweepSpec == Init /\ [][SweepNext]_vars

\* The sweep has evicted a bucket of the userID from the registry of the
\* instance, and the bucket has stayed idle since.
Evicted(i, u) == \E b \in CreatedFor(i, u) : audit[b].evicted /\ Expired(buckets[b])

\* Request r gets a bucket that getOrCreateBucket creates in this step.
Creates(r) == th[r].pc = "g_create" /\ th'[r].pc = "g_ret"

\* C19: with the local backend, the bucket created for a userID after the
\* sweep has evicted its idle bucket, which no request uses any more, starts
\* from zero tokens: an Allow(count) with count > 0 and no time elapsed since
\* the creation finds too few tokens.
C19_FreshAfterSweep ==
    [][\A r \in Threads :
          (/\ Creates(r)
           /\ ~cfg.Redis
           /\ Evicted(th[r].inst, th[r].userID)
           /\ \A q \in Threads \ {r} : th[q].pc \in {"idle", "w_ret"}) =>
              \A count \in 1 .. MaxLen :
                  ~Enough(Refill(buckets'[th'[r].bucket]), count)]_vars

(***************************************************************************)
(* One request of one instance, the clock and the sweep: the request's     *)
(* goroutine and the sweep's goroutine, started by Provision, both run     *)
(* when they can.                                                          *)
(***************************************************************************)
SweepLiveNext ==
    \/ \E u \in Users, rate \in ValidRates : CallGetOrCreate(1, 1, u, rate)
    \/ Alone(1)
    \/ \E d \in ShortTicks \cup LongTicks : Tick(d)
    \/ Sweep(1)

SweepLiveSpec ==
    /\ Init
    /\ [][SweepLiveNext]_vars
    /\ WF_vars(Alone(1))
    /\ WF_vars(Sweep(1))

\* The bucket's last access is older than the 30-minute idle threshold.
IdleTooLong(b) == Since(buckets[b].lastAccess) > ExpiryThreshold

\* A step that is a run of the sweep of instance i.
SweepRuns(i) == tickerPending[i] /\ ~tickerPending'[i]

ChunkRates == {ChunkDefault, RateMedium}

\* Payloads of one chunk, of whole chunks, and of chunks and a remainder.
ChunkLens == {ChunkDefault, 2 * ChunkDefault + 1, ChunkMedium + 1}

ChunkNext ==
    \/ \E u \in Users, rate \in ChunkRates : CallGetOrCreate(1, 1, u, rate)
    \/ Alone(1)
    \/ \E len \in ChunkLens : WriteBegin(1, len)
    \/ \E n \in 0 .. MaxLen : n < th[1].currentChunkSize /\ SinkWrite(1, n, TRUE)
    \/ Tick(1)

ChunkSpec == Init /\ [][ChunkNext]_vars

\* Write returns to worker r in this step.
WriteReturns(r) == th[r].pc # "w_ret" /\ th'[r].pc = "w_ret"

\* The chunks a sink has taken follow one another from offset 0.
Consecutive(chunks) ==
    \A k \in 1 .. Len(chunks) :
        chunks[k][1] = IF k = 1 THEN 0 ELSE chunks[k - 1][1] + chunks[k - 1][2]

\* C21: when Write returns without error for a payload of length L, it
\* returns n = L and the sink has taken exactly the L bytes, once each and in
\* order, as consecutive chunks: every chunk but the last of the chosen chunk
\* size, the last of what remained.
C21_WholePayloadInChunks ==
    [][\A r \in Threads :
          (WriteReturns(r) /\ ~th'[r].err) =>
              LET chunks == sink'[r].chunks
                  L == th[r].len
                  size == th[r].chunkSize
              IN  /\ th'[r].n = L
                  /\ sink'[r].bytes = L
                  /\ Consecutive(chunks)
                  /\ \A k \in 1 .. Len(chunks) :
                         chunks[k][2] = IF k < Len(chunks) THEN size
                                        ELSE L - (Len(chunks) - 1) * size
                  /\ \A k \in 1 .. Len(chunks) : chunks[k][2] > 0 /\ chunks[k][2] <= size]_vars

\* A Write of two whole chunks and a remainder has returned without error.
C21_Witness ==
    \E r \in Threads :
        /\ th[r].pc = "w_ret" /\ ~th[r].err
        /\ th[r].n = 2 * ChunkDefault + 1
        /\ Len(sink[r].chunks) = 3

\* The sink of worker r returns an error in this step.
SinkFails(r) == th[r].pc = "w_write" /\ ~sink[r].failed /\ sink'[r].failed

\* C22: when the write of a chunk to the sink returns an error, Write returns
\* at once with that error and the number of bytes written so far; after that
\* the request asks its bucket for no more tokens and the sink takes no later
\* chunk.
C22_SinkErrorStops ==
    [][\A r \in Threads :
          /\ SinkFails(r) =>
                 /\ th'[r].pc = "w_ret"
                 /\ th'[r].err
                 /\ th'[r].n = sink'[r].bytes
          /\ sink[r].failed =>
                 /\ sink'[r] = sink[r]
                 /\ th'[r].pc = "w_ret"
                 /\ audit'[th[r].bucket].admitted = audit[th[r].bucket].admitted]_vars

\* The sink failed on the second chunk of a payload of three, having taken a
\* part of it, and Write has returned the error.
C22_Witness ==
    \E r \in Threads :
        /\ th[r].pc = "w_ret" /\ th[r].err /\ sink[r].failed
        /\ th[r].len = 2 * ChunkDefault + 1
        /\ th[r].n = ChunkDefault + 1

(***************************************************************************)
(* Requests of one instance that call Allow on their shared bucket again   *)
(* and again, observed from a refill or from a return of false.            *)
(***************************************************************************)
SaturationNext ==
    \/ \E r \in Threads, u \in Users, rate \in ValidRates : CallGetOrCreate(r, 1, u, rate)
    \/ \E r \in Threads : GRate(r)
    \/ \E r \in Threads : GSet(r)
    \/ \E r \in Threads : Alone(r)
    \/ \E r \in Threads : AllowLock(r, "bucket")
    \/ \E r \in Threads : AllowChecked(r, "refusal")
    \/ \E d \in ShortTicks : Tick(d)

SaturationSpec == Init /\ [][SaturationNext]_vars

\* C23: Allow(c) returns true only when the balance an observed interval of
\* the bucket began with, plus rate * (the time elapsed since), minus what was
\* admitted in the interval, is at least c.  For an interval with no time
\* elapsed that began with balance B, at most floor(B / c) calls succeed and
\* the next returns false; for an interval that began at a refusal leaving
\* b < c, Allow(c) returns true only once (c - b) / rate has elapsed.
C23_Saturation ==
    [][\A r \in Threads :
          (/\ AllowAnswers(r)
           /\ AllowedTrue(r)
           /\ audit[th[r].bucket].marked) =>
              audit[th[r].bucket].allowance >= th[r].currentChunkSize]_vars

\* After a refusal that left less than the chunk, and the wait, Allow has
\* found enough tokens: the chunk is about to be consumed.
C23_Witness ==
    \E r \in Threads :
        /\ th[r].pc = "a_consume"
        /\ audit[th[r].bucket].marked /\ audit[th[r].bucket].atRefusal
        /\ audit[th[r].bucket].allowance = th[r].currentChunkSize

\* The call of the Storage interface made in this step tried the server
\* RetryLimit times and every attempt failed.
RetriesExhausted == StorageCalled /\ call'.attempts = RetryLimit /\ ~redis.up

\* C24: when a Get, Set or Delete still fails after its retries, the health
\* state of the backend becomes unhealthy; and while it is unhealthy every
\* Get, Set and Delete makes no call to the server.
C24_ExhaustionMarksUnhealthy ==
    [][/\ RetriesExhausted => ~redis'.healthyFlag[call'.by]
       /\ (StorageCalled /\ ~redis.healthyFlag[call'.by]) => call'.attempts = 0]_vars

(***************************************************************************)
(* RedisStorage with a server that answers some attempts of a call and not *)
(* others.                                                                 *)
(***************************************************************************)
\* What the server does at each attempt of a call.
Answers == [1 .. RetryLimit -> BOOLEAN]

\* What the caller of Get, Set or Delete has seen, with the answers of the
\* server to the attempts and, for a Get, the balance returned.
Tried(op, i, err, attempts, answers, tokens) ==
    [op |-> op, by |-> i, err |-> err, attempts |-> attempts, seq |-> 1 - call.seq,
     answers |-> answers, tokens |-> tokens]

GetTried(i, userID, answers) ==
    LET res == RedisGetTried(redis, i, userID, answers)
    IN  /\ call' = Tried("Get", i, res.out.err, res.attempts, answers, res.out.tokens)
        /\ UNCHANGED <<cfg, msMutex, redis, shared, http, buckets, nBuckets, limiters, limitersMutex,
                       tickerPending, msData, th, sink, audit>>

SetTried(i, userID, tokens, lastAccess, answers) ==
    LET res == RedisSetTried(redis, i, userID, tokens, lastAccess, answers)
    IN  /\ redis' = res.redis
        /\ call' = Tried("Set", i, res.err, res.attempts, answers, 0)
        /\ UNCHANGED <<cfg, msMutex, shared, http, buckets, nBuckets, limiters, limitersMutex,
                       tickerPending, msData, th, sink, audit>>

DeleteTried(i, userID, answers) ==
    LET res == RedisDeleteTried(redis, i, userID, answers)
    IN  /\ redis' = res.redis
        /\ call' = Tried("Delete", i, res.err, res.attempts, answers, 0)
        /\ UNCHANGED <<cfg, msMutex, shared, http, buckets, nBuckets, limiters, limitersMutex,
                       tickerPending, msData, th, sink, audit>>

RetryNext ==
    \/ \E i \in cfg.instances, u \in Users, a \in Answers : GetTried(i, u, a)
    \/ \E i \in cfg.instances, u \in Users, tokens \in {0, MaxRate}, a \in Answers :
           SetTried(i, u, tokens, now, a)
    \/ \E i \in cfg.instances, u \in Users, a \in Answers : DeleteTried(i, u, a)
    \/ \E i \in cfg.instances : HealthCheck(i)
    \/ ServerTurns
    \/ Tick(HealthInterval)

RetrySpec == RedisInit /\ [][RetryNext]_vars

\* The attempts before attempt k all failed.
FailedBefore(answers, k) == \A j \in 1 .. k - 1 : ~answers[j]

\* C25: a Get, Set or Delete on a healthy backend tries the server at most
\* 3 times and stops at the first attempt the server answers; when all 3
\* attempts of a Get fail, Get returns the most tokens there are and no error.
C25_RetryThenFallback ==
    [][(StorageCalled /\ redis.healthyFlag[call'.by]) =>
          LET n == call'.attempts
              answers == call'.answers
          IN  /\ n \in 1 .. 3
              /\ FailedBefore(answers, n)
              /\ answers[n] \/ n = 3
              /\ (\A k \in 1 .. 3 : ~answers[k]) =>
                     IF call'.op = "Get"
                     THEN ~call'.err /\ call'.tokens = MaxFloat64
                     ELSE call'.err]_vars

\* On a healthy backend a Get has failed 3 times and returned the fallback;
\* or, the other case, a call has ended at its second attempt.
C25_Witness ==
    /\ call.op = "Get"
    /\ redis.healthyFlag[call.by]
    /\ call.attempts = 3 /\ \A k \in 1 .. 3 : ~call.answers[k]
    /\ ~call.err /\ call.tokens = MaxFloat64

\* Pass 1 has not returned, or its captured headers have not been read yet.
BeforeInspection(r) == http[r].pc \in {"pass1", "inspect"}

\* C26: before pass 1 has returned and the captured headers have been
\* inspected, nothing has gone to the real sink: no status code, no header
\* and no body byte.
C26_NothingForwardedInPass1 ==
    \A r \in Threads :
        BeforeInspection(r) =>
            /\ sink[r].status = 0
            /\ sink[r].sent = NoHeader
            /\ sink[r].bytes = 0

\* Request r is inside a Write through its bucket: between chunks, in Allow,
\* asleep waiting for tokens, or writing a chunk to the sink.
InWrite(r) ==
    th[r].pc \in {"w_loop", "a_lock", "a_check", "a_consume", "w_rate", "w_tokens",
                  "w_sleep", "w_write"}

\* C27: while a request is inside a Write through the bucket it obtained for
\* a userID, every request that getOrCreateBucket has returned a bucket to
\* for that userID holds that same bucket: no two distinct buckets of one
\* userID are in use at the same time.
C27_OneBucketInUse ==
    \A r1, r2 \in Threads :
        (/\ InWrite(r1)
         /\ HasBucket(r2) /\ th[r2].pc # "w_ret"
         /\ th[r1].inst = th[r2].inst /\ th[r1].userID = th[r2].userID) =>
            th[r1].bucket = th[r2].bucket

\* Worker r is inside Allow, past the refill, in this step and the next.
AllowRefills(r) == th[r].pc = "a_lock" /\ th'[r].pc = "a_check"
AllowRefuses(r) == th[r].pc = "a_check" /\ th'[r].pc = "w_rate"
AllowPending(r) == th[r].pc = "a_check" /\ th'[r].pc = "a_check"

\* C28: an Allow that returns false changes the bucket by its refill only:
\* the refill sets tokens to min(tokens + rate * elapsed, rate *
\* burstMultiplier) and lastAccess to now; from the refill to the return of
\* false no token is deducted, the rate and the time of the last push stay as
\* they are, and nothing is written to the storage.
C28_RefusalOnlyRefills ==
    [][\A r \in Threads :
          LET b == buckets[th[r].bucket]
              c == buckets'[th[r].bucket]
          IN  /\ AllowRefills(r) =>
                     /\ c.tokens = Min(b.tokens + b.rate * (now - b.lastAccess),
                                       b.rate * b.burstMultiplier)
                     /\ c.lastAccess = now
                     /\ c.rate = b.rate
                     /\ c.lastStorageUpdate = b.lastStorageUpdate
                     /\ msData' = msData /\ redis' = redis
              /\ AllowPending(r) => c.tokens = b.tokens /\ c.rate = b.rate
              /\ AllowRefuses(r) =>
                     /\ c.tokens = b.tokens
                     /\ c.rate = b.rate
                     /\ c.lastAccess = b.lastAccess
                     /\ c.lastStorageUpdate = b.lastStorageUpdate
                     /\ msData' = msData /\ redis' = redis]_vars

\* Allow has returned false after a refill that added tokens, but fewer than
\* the chunk needs: the tokens are still there.
C28_Witness ==
    \E r \in Threads :
        /\ th[r].pc = "w_rate"
        /\ buckets[th[r].bucket].tokens > 0
        /\ buckets[th[r].bucket].tokens < th[r].currentChunkSize
        /\ buckets[th[r].bucket].lastAccess = now

\* getOrCreateBucket of request r finds the userID in the registry in this
\* step (the lookup under RLock, or the second one under Lock).
LooksUp(r) == th[r].pc \in {"g_read", "g_check"} /\ th'[r].pc # th[r].pc

\* getOrCreateBucket returns to request r, in this step, a bucket it found.
ReturnsFound(r) == th[r].pc \in {"g_rate", "g_set"} /\ th'[r].pc = "g_ret"

\* C29: getOrCreateBucket called for a userID that has a bucket in the
\* registry returns that bucket; on its return the bucket is as it was but for
\* its rate, which is the requested rate: balance and lastAccess are left
\* alone, no bucket is created and the storage is not read.
C29_ExistingBucketReturned ==
    [][\A r \in Threads :
          LET id == limiters[th[r].inst][th[r].userID]
              b == th[r].bucket
          IN  /\ (LooksUp(r) /\ id # 0) =>
                     /\ th'[r].pc = "g_rate"
                     /\ th'[r].bucket = id
                     /\ UNCHANGED <<buckets, nBuckets, audit>>
              /\ ReturnsFound(r) =>
                     /\ th'[r].bucket = b
                     /\ b \in CreatedFor(th[r].inst, th[r].userID)
                     /\ buckets'[b] = [buckets[b] EXCEPT !.rate = th[r].rateLimit]
                     /\ nBuckets' = nBuckets
                     /\ audit'[b].reads = audit[b].reads
                     /\ msData' = msData /\ redis' = redis]_vars

\* getOrCreateBucket has returned an existing bucket whose rate it has set,
\* and the bucket still holds tokens.
C29_Witness ==
    \E r \in Threads :
        /\ th[r].pc = "g_ret"
        /\ audit[th[r].bucket].rateChanged
        /\ buckets[th[r].bucket].rate = th[r].rateLimit
        /\ buckets[th[r].bucket].tokens > 0
        /\ \E q \in Threads \ {r} : th[q].bucket = th[r].bucket /\ InWrite(q)

\* The state MemoryStorage of instance i holds for the userID is written in
\* this step: it appears, its balance changes, or its timestamp gets younger
\* (the passing of time only makes it older).
StoreWritten(i, u) ==
    \/ msData'[i][u].found # msData[i][u].found
    \/ msData'[i][u].Tokens # msData[i][u].Tokens
    \/ msData'[i][u].LastAccess > msData[i][u].LastAccess

\* Allow returns true to request r in this step.
AllowSucceeds(r) == th[r].pc = "a_consume" /\ th'[r].pc = "w_write"

\* Request r pushes the state of its bucket in this step, inside an Allow
\* that succeeds, more than 5 seconds after the bucket's last push or its
\* creation: what is stored is the balance after the consumption and the
\* bucket's lastAccess.
Pushes(r) ==
    LET b == th[r].bucket
    IN  /\ AllowSucceeds(r)
        /\ Since(buckets[b].lastStorageUpdate) > storageUpdateThreshold
        /\ buckets'[b].tokens = buckets[b].tokens - th[r].currentChunkSize
        /\ buckets'[b].lastStorageUpdate = now
        /\ msData'[buckets[b].inst][buckets[b].userID] =
               [found |-> TRUE, Tokens |-> buckets'[b].tokens,
                LastAccess |-> buckets'[b].lastAccess]

\* C30: the stored state of a userID is written only by a push of a bucket
\* of that userID inside a successful Allow, more than 5 seconds after the
\* bucket's previous push or its creation, and the push stores the balance
\* after consumption with the bucket's lastAccess; the time of the last push
\* of a bucket moves at a push only.
C30_PushAtMostEveryFiveSeconds ==
    [][/\ \A i \in Instances, u \in Users :
              StoreWritten(i, u) =>
                  \E r \in Threads :
                      /\ Pushes(r)
                      /\ buckets[th[r].bucket].inst = i
                      /\ buckets[th[r].bucket].userID = u
       /\ \A b \in 1 .. nBuckets :
              buckets'[b].lastStorageUpdate > buckets[b].lastStorageUpdate =>
                  \E r \in Threads : th[r].bucket = b /\ Pushes(r)]_vars

\* A bucket that had admitted a chunk before has pushed its state inside a
\* later Allow: the storage holds what the bucket holds, and the time of the
\* bucket's last push is now.
C30_Witness ==
    \E r \in Threads :
        LET b == th[r].bucket
        IN  /\ th[r].pc = "w_write"
            /\ buckets[b].lastStorageUpdate = now
            /\ msData[buckets[b].inst][buckets[b].userID] =
                   [found |-> TRUE, Tokens |-> buckets[b].tokens,
                    LastAccess |-> buckets[b].lastAccess]
            /\ audit[b].admitted > th[r].currentChunkSize

(***************************************************************************)
(* Requests of one userID whose signals carry rates on both sides of the   *)
(* two rates at which the chunk size changes: the first request writes its *)
(* response while the others, whose responses have not begun, set the rate *)
(* of the bucket it writes through.                                        *)
(***************************************************************************)
\* The two rates at which the chunk size changes, and the rates just below.
BoundaryRates == {RateMedium - 1, RateMedium, RateLarge - 1, RateLarge}

\* A payload of more than the largest chunk.
BoundaryLens == {ChunkLarge + 1}

BoundaryNext ==
    \/ \E r \in Threads, u \in Users, rate \in BoundaryRates : CallGetOrCreate(r, 1, u, rate)
    \/ \E r \in Threads : GRead(r)
    \/ \E r \in Threads : GRate(r)
    \/ \E r \in Threads : GSet(r)
    \/ \E r \in Threads : GLock(r)
    \/ \E r \in Threads : GCheck(r)
    \/ \E r \in Threads : GCreate(r)
    \/ Alone(1)
    \/ \E len \in BoundaryLens : WriteBegin(1, len)
    \/ Tick(1)

BoundarySpec == Init /\ [][BoundaryNext]_vars

\* Write begins for worker r in this step, with a payload that is not empty.
WriteStarts(r) == th[r].pc = "attached" /\ th'[r].pc = "w_loop"

\* C31: the chunk size of a Write is chosen from the rate the bucket has
\* when the Write begins: 64 KiB below 10 MiB/s, 256 KiB from 10 MiB/s to
\* below 50 MiB/s, 512 KiB from 50 MiB/s on; it stays as chosen until the
\* Write returns, whatever the bucket's rate becomes meanwhile.
C31_ChunkSizeFromRateAtStart ==
    [][\A r \in Threads :
          /\ WriteStarts(r) =>
                 LET rate == buckets[th[r].bucket].rate
                 IN  /\ rate < 10 * 1024 * 1024 => th'[r].chunkSize = 64 * 1024
                     /\ (rate >= 10 * 1024 * 1024 /\ rate < 50 * 1024 * 1024) =>
                            th'[r].chunkSize = 256 * 1024
                     /\ rate >= 50 * 1024 * 1024 => th'[r].chunkSize = 512 * 1024
          /\ (InWrite(r) /\ th'[r].pc # "w_ret") =>
                 th'[r].chunkSize = th[r].chunkSize]_vars

\* A Write that began at exactly 10 MiB/s goes on in chunks of 256 KiB, one
\* of them already on the sink, after the bucket has been set to 50 MiB/s.
C31_Witness ==
    \E r \in Threads :
        /\ InWrite(r)
        /\ th[r].rate = RateMedium
        /\ th[r].chunkSize = ChunkMedium
        /\ buckets[th[r].bucket].rate = RateLarge
        /\ sink[r].bytes = ChunkMedium

(***************************************************************************)
(* MemoryStorage on its own: callers of the Storage interface on two keys, *)
(* and the clock.  Each call runs under the mutex of the storage, from     *)
(* Lock or RLock to the deferred unlock, and is one step.                  *)
(***************************************************************************)
Keys == {"u1", "u2"}

\* What is observed of a key: whether a Set of it has been called with no
\* Delete of it and no Close since, and what that Set was given.
NoStored == [set |-> FALSE, tokens |-> 0, lastAccess |-> 0]

LocalInit ==
    /\ cfg \in [BurstMultiplier : {1}, Redis : {FALSE}, instances : {{1}}]
    /\ redis = NoRedis
    /\ call = NoCall
    /\ http = [r \in Threads |-> NoHttp]
    /\ buckets = [b \in BucketIds |-> NoBucket]
    /\ nBuckets = 0
    /\ limiters = [i \in Instances |-> [u \in Users |-> 0]]
    /\ limitersMutex = [i \in Instances |-> 0]
    /\ tickerPending = [i \in Instances |-> FALSE]
    /\ msData = [i \in Instances |-> [u \in Keys |-> NoState]]
    /\ msMutex = [i \in Instances |-> 0]
    /\ th = [r \in Threads |-> NoThread]
    /\ sink = [r \in Threads |-> NoSink]
    /\ audit = [b \in BucketIds |-> NoAudit]
    /\ shared = [u \in Keys |-> NoStored]

\* What the caller of a MemoryStorage method has seen.
LocalCalled(op, i, userID, out) ==
    [op |-> op, by |-> i, err |-> out.err, attempts |-> 0, seq |-> 1 - call.seq,
     userID |-> userID, tokens |-> out.tokens, lastAccess |-> out.lastAccess]

\* Set, Delete and Close return nil.
Nil == [err |-> FALSE, tokens |-> 0, lastAccess |-> 0]

LocalGet(i, userID) ==
    /\ call' = LocalCalled("Get", i, userID, MemoryGet(msData[i], userID))
    /\ UNCHANGED <<cfg, msMutex, redis, shared, http, buckets, nBuckets, limiters, limitersMutex,
                   tickerPending, msData, th, sink, audit>>

LocalSet(i, userID, tokens, lastAccess) ==
    /\ msData' = [msData EXCEPT ![i] = MemorySet(@, userID, tokens, lastAccess)]
    /\ call' = LocalCalled("Set", i, userID, Nil)
    /\ shared' = [shared EXCEPT ![userID] =
                     [set |-> TRUE, tokens |-> tokens, lastAccess |-> lastAccess]]
    /\ UNCHANGED <<cfg, msMutex, redis, http, buckets, nBuckets, limiters, limitersMutex,
                   tickerPending, th, sink, audit>>

LocalDelete(i, userID) ==
    /\ msData' = [msData EXCEPT ![i] = MemoryDelete(@, userID)]
    /\ call' = LocalCalled("Delete", i, userID, Nil)
    /\ shared' = [shared EXCEPT ![userID] = NoStored]
    /\ UNCHANGED <<cfg, msMutex, redis, http, buckets, nBuckets, limiters, limitersMutex,
                   tickerPending, th, sink, audit>>

LocalClose(i) ==
    /\ msData' = [msData EXCEPT ![i] = MemoryClose(@)]
    /\ call' = LocalCalled("Close", i, "", Nil)
    /\ shared' = [u \in Keys |-> NoStored]
    /\ UNCHANGED <<cfg, msMutex, redis, http, buckets, nBuckets, limiters, limitersMutex,
                   tickerPending, th, sink, audit>>

\* d ticks pass: the timestamps callers have given grow older.
LocalTick(d) ==
    /\ msData' = [i \in Instances |-> MemoryAged(msData[i], d)]
    /\ shared' = [u \in Keys |->
                     IF shared[u].set THEN [shared[u] EXCEPT !.lastAccess = Aged(@, d)]
                     ELSE shared[u]]
    /\ UNCHANGED <<cfg, msMutex, redis, call, http, buckets, nBuckets, limiters, limitersMutex,
                   tickerPending, th, sink, audit>>

LocalNext ==
    \/ \E u \in Keys : LocalGet(1, u)
    \/ \E u \in Keys, tokens \in StoredTokens, t \in StoredTimes : LocalSet(1, u, tokens, t)
    \/ \E u \in Keys : LocalDelete(1, u)
    \/ LocalClose(1)
    \/ \E d \in {1, ExpiryThreshold + 1} : LocalTick(d)

LocalSpec == LocalInit /\ [][LocalNext]_vars

\* C32: a Get of a key whose last Set has been followed by no Delete of it
\* and no Close returns what that Set was given and no error, a balance of
\* zero included; a Get of a key never set, deleted or closed away returns
\* the not-found error; a Set or a Delete of one key leaves what is stored
\* under every other key as it was; however much time passes.
C32_LocalGetAfterSet ==
    [][/\ (StorageCalled /\ call'.op = "Get") =>
              IF shared[call'.userID].set
              THEN /\ ~call'.err
                   /\ call'.tokens = shared[call'.userID].tokens
                   /\ call'.lastAccess = shared[call'.userID].lastAccess
              ELSE call'.err
       /\ (StorageCalled /\ call'.op \in {"Set", "Delete"}) =>
              \A u \in Keys \ {call'.userID} : msData'[call'.by][u] = msData[call'.by][u]]_vars

\* Get has returned a found state of zero tokens for one key, stored before
\* the last tick, while the other key holds another state.
C32_Witness ==
    /\ call.op = "Get" /\ call.userID = "u1"
    /\ ~call.err /\ call.tokens = 0
    /\ call.lastAccess = now - 2
    /\ msData[1]["u2"].found /\ msData[1]["u2"].Tokens = MaxRate

(***************************************************************************)
(* The keys of the Redis server over time: two instances that call Get and *)
(* Set, as the buckets do, on a server that holds a state of the user from *)
(* an earlier Set.  Nothing in the program calls Delete.                   *)
(***************************************************************************)
TtlInit ==
    /\ cfg \in [BurstMultiplier : {1}, Redis : {TRUE}, instances : {Instances}]
    /\ redis \in {Written([NoRedis EXCEPT !.up = u, !.healthyFlag = [i \in Instances |-> u]],
                           v, 0, now) : u \in BOOLEAN, v \in Users}
    /\ Provisioned

TtlNext ==
    \/ \E i \in cfg.instances, u \in Users, a \in Answers : GetTried(i, u, a)
    \/ \E i \in cfg.instances, u \in Users, tokens \in {0, MaxRate}, a \in Answers :
           SetTried(i, u, tokens, now, a)
    \/ \E i \in cfg.instances : HealthCheck(i)
    \/ ServerTurns
    \/ \E d \in {1, HealthInterval, RedisTTL + 1} : Tick(d)

TtlSpec == TtlInit /\ [][TtlNext]_vars

\* The server has answered the last attempt of the call made in this step.
Answered == call'.attempts >= 1 /\ call'.answers[call'.attempts]

\* The call made in this step was made by an instance that holds the
\* backend healthy, and the server has executed it.
Executed == StorageCalled /\ redis.healthyFlag[call'.by] /\ Answered

\* No key is older than the TTL, no call takes a key away, and a Get leaves
\* the keys and their TTLs as they are.
TtlKept ==
    /\ \A u \in Users : redis'.data[u].found => Since(redis'.data[u].SetAt) <= RedisTTL
    /\ StorageCalled => \A u \in Users : redis.data[u].found => redis'.data[u].found
    /\ (StorageCalled /\ call'.op = "Get") => redis' = redis

Open(i) == ~redis.healthDone[i]

CloseCall(i, answer) ==
    LET res == RedisClose(redis, i, answer)
    IN  /\ Open(i)
        /\ redis' = res.redis
        /\ call' = Tried("Close", i, res.err, res.attempts, [k \in 1 .. RetryLimit |-> answer], 0)
        /\ UNCHANGED <<cfg, msMutex, shared, http, buckets, nBuckets, limiters, limitersMutex,
                       tickerPending, msData, th, sink, audit>>

\* healthCheck, lines 163-164: the probe receives from healthDone and returns.
HealthExit(i) ==
    /\ redis.probing[i]
    /\ redis.healthDone[i]
    /\ redis' = [redis EXCEPT !.probing[i] = FALSE]
    /\ UNCHANGED <<cfg, msMutex, call, shared, http, buckets, nBuckets, limiters, limitersMutex,
                   tickerPending, msData, th, sink, audit>>

CloseNext ==
    \/ \E i \in cfg.instances, u \in Users : Open(i) /\ GetCall(i, u)
    \/ \E i \in cfg.instances, u \in Users, tokens \in StoredTokens :
           Open(i) /\ SetCall(i, u, tokens, now)
    \/ \E i \in cfg.instances, answer \in BOOLEAN : CloseCall(i, answer)
    \/ \E i \in cfg.instances : HealthCheck(i)
    \/ \E i \in cfg.instances : HealthExit(i)
    \/ ServerTurns
    \/ \E d \in {1, HealthInterval} : Tick(d)

CloseSpec == RedisInit /\ [][CloseNext]_vars

\* Close returns to its caller in this step.
CloseReturns == StorageCalled /\ call'.op = "Close"

\* C34: when Close of the distributed backend returns, whether the backend
\* was held healthy or unhealthy, the health ticker is stopped, the probe
\* has been told to end, and the connection is released; when the backend
\* was held healthy, Close has also tried to delete every key under the
\* prefix, and no key is left when the server has answered.
C34_CloseReleases ==
    [][CloseReturns =>
          /\ redis'.healthStopped[call'.by]
          /\ redis'.healthDone[call'.by]
          /\ redis'.clientClosed[call'.by]
          /\ redis.healthyFlag[call'.by] =>
                 /\ call'.attempts = 1
                 /\ call'.answers[1] => \A u \in Users : ~redis'.data[u].found]_vars

(***************************************************************************)
(* The three locks.  Requests of one instance with the local storage, and  *)
(* the sweep of that instance, with every Lock that is held across a call  *)
(* taken in a step of its own: the registry lock by getOrCreateBucket and  *)
(* by the sweep, the bucket lock by Allow, the storage lock by Get inside  *)
(* NewTokenBucket and by Set inside Allow.  Rate, SetRate, Tokens and      *)
(* LastAccess, and the lookup under RLock, take a lock, read or write one  *)
(* field and release it: they wait until the lock can be taken and are one *)
(* step.  A goroutine that can go on does go on: the requests and the      *)
(* sweep are scheduled fairly.                                             *)
(***************************************************************************)
\* The sweep goroutine, as a task next to the request workers.
Sweeper == NumThreads + 1
Tasks == Threads \cup {Sweeper}

\* Worker r is at a call of the storage: Get in NewTokenBucket (line 41), or
\* Set in an Allow whose push is due (lines 108-109).
AtStorage(r) ==
    \/ th[r].pc = "g_create"
    \/ /\ th[r].pc = "a_consume"
       /\ PushDue(Consume(buckets[th[r].bucket], th[r].currentChunkSize))

\* MemoryStorage.Get, line 52, and Set, line 64: RLock, Lock.
StoreLock(r) ==
    /\ ~cfg.Redis
    /\ AtStorage(r)
    /\ msMutex[th[r].inst] = 0
    /\ msMutex' = [msMutex EXCEPT ![th[r].inst] = r]
    /\ UNCHANGED <<cfg, call, shared, http, redis, buckets, nBuckets, limiters, limitersMutex,
                   tickerPending, msData, th, sink, audit>>

\* cleanupExpiredLimiters, lines 288-289: the tick received, the registry locked.
SweepLock(i) ==
    /\ tickerPending[i]
    /\ RegistryFree(i)
    /\ limitersMutex' = [limitersMutex EXCEPT ![i] = Sweeper]
    /\ tickerPending' = [tickerPending EXCEPT ![i] = FALSE]
    /\ UNCHANGED <<cfg, msMutex, call, shared, http, redis, buckets, nBuckets, limiters,
                   msData, th, sink, audit>>

\* cleanupExpiredLimiters, lines 290-300: LastAccess() of every bucket in
\* the registry, the expired ones deleted, the registry unlocked.
SweepRun(i) ==
    /\ limitersMutex[i] = Sweeper
    /\ \A u \in Users : limiters[i][u] # 0 => MutexFree(buckets[limiters[i][u]])
    /\ limiters' = [limiters EXCEPT ![i] = [u \in Users |->
                       IF limiters[i][u] \in Swept(i) THEN 0 ELSE limiters[i][u]]]
    /\ audit' = [b \in BucketIds |->
                    IF b \in Swept(i) THEN [audit[b] EXCEPT !.evicted = TRUE]
                    ELSE audit[b]]
    /\ limitersMutex' = [limitersMutex EXCEPT ![i] = 0]
    /\ UNCHANGED <<cfg, msMutex, call, shared, http, redis, buckets, nBuckets, tickerPending,
                   msData, th, sink>>

\* The steps of the request of worker r: getOrCreateBucket, then one Write
\* of one byte.
Request(r) ==
    \/ GRead(r)
    \/ GRate(r)
    \/ GSet(r)
    \/ GLock(r)
    \/ GCheck(r)
    \/ StoreLock(r)
    \/ GCreate(r)
    \/ Attach(r)
    \/ WriteBegin(r, 1)
    \/ WriteLoop(r)
    \/ AllowLock(r, "none")
    \/ AllowCheck(r)
    \/ AllowConsume(r)
    \/ WaitReadRate(r)
    \/ WaitSleep(r)
    \/ WaitWake(r)
    \/ SinkWrite(r, th[r].currentChunkSize, FALSE)

LockNext ==
    \/ \E r \in Threads, u \in Users, rate \in ValidRates : CallGetOrCreate(r, 1, u, rate)
    \/ \E r \in Threads : Request(r)
    \/ SweepLock(1)
    \/ SweepRun(1)
    \/ Tick(ExpiryThreshold + 1)

LockSpec ==
    /\ Init
    /\ [][LockNext]_vars
    /\ \A r \in Threads : WF_vars(Request(r))
    /\ WF_vars(SweepLock(1) \/ SweepRun(1))

\* The locks task t holds.
HoldsRegistry(t) == \E i \in Instances : limitersMutex[i] = t
HoldsBucket(t) == \E b \in 1 .. nBuckets : buckets[b].mutex = t
HoldsStore(t) == \E i \in Instances : msMutex[i] = t

\* The lock task t is about to take: where it is in the code, its next step
\* takes the registry lock, the lock of a bucket, or the storage lock.
TakesRegistry(t) ==
    IF t = Sweeper THEN tickerPending[1] /\ limitersMutex[1] # Sweeper
    ELSE th[t].pc \in {"g_read", "g_lock"}

TakesBucket(t) ==
    IF t = Sweeper THEN limitersMutex[1] = Sweeper /\ \E u \in Users : limiters[1][u] # 0
    ELSE th[t].pc \in {"g_rate", "g_set", "a_lock", "w_rate", "w_tokens"}

TakesStore(t) == t # Sweeper /\ ~cfg.Redis /\ AtStorage(t) /\ ~HoldsStore(t)

\* The task that holds the lock task t is about to take: 0 when the lock
\* can be taken.
HolderFor(t) ==
    IF TakesRegistry(t) THEN limitersMutex[1]
    ELSE IF TakesBucket(t)
    THEN IF t = Sweeper
         THEN IF \E u \in Users : limiters[1][u] # 0 /\ ~MutexFree(buckets[limiters[1][u]])
              THEN buckets[limiters[1][CHOOSE u \in Users :
                       limiters[1][u] # 0 /\ ~MutexFree(buckets[limiters[1][u]])]].mutex
              ELSE 0
         ELSE buckets[th[t].bucket].mutex
    ELSE IF TakesStore(t) THEN msMutex[1]
    ELSE 0

\* Task t waits for a lock that another task holds.
Blocked(t) == HolderFor(t) # 0

\* Task t can proceed, or waits for a task that can, through at most n locks.
RECURSIVE Proceeds(_, _)
Proceeds(t, n) ==
    \/ ~Blocked(t)
    \/ n > 0 /\ Proceeds(HolderFor(t), n - 1)

\* A task that takes a lock holds no lock of the same or of a later rank.
InOrder(t) ==
    /\ TakesRegistry(t) => ~HoldsRegistry(t) /\ ~HoldsBucket(t) /\ ~HoldsStore(t)
    /\ TakesBucket(t) => ~HoldsBucket(t) /\ ~HoldsStore(t)
    /\ TakesStore(t) => ~HoldsStore(t)

\* In this step task t has come to hold a lock it did not hold: it held no
\* lock of a later rank.
TakenInOrder(t) ==
    /\ (HoldsRegistry(t)' /\ ~HoldsRegistry(t)) => ~HoldsBucket(t) /\ ~HoldsStore(t)
    /\ (HoldsBucket(t)' /\ ~HoldsBucket(t)) => ~HoldsStore(t)

\* C35: the registry lock, the bucket lock and the storage lock are taken
\* in the order registry, bucket, storage only; no tasks wait for one
\* another in a circle: every task can proceed or waits, through at most
\* three locks, for one that can; and a task that waits for a lock is
\* eventually able to proceed.
C35_NoDeadlock ==
    /\ [](\A t \in Tasks : InOrder(t) /\ Proceeds(t, 3))
    /\ [][\A t \in Tasks : TakenInOrder(t)]_vars
    /\ \A t \in Tasks : Blocked(t) ~> ~Blocked(t)

\* A request waits for the registry lock, which the sweep holds while it
\* waits for the lock of the bucket, which another request holds inside
\* Allow, inside Set, with the storage lock.
C35_Witness ==
    \E r1, r2 \in Threads :
        /\ th[r2].pc = "g_lock"
        /\ limitersMutex[1] = Sweeper
        /\ \E u \in Users : limiters[1][u] # 0 /\ buckets[limiters[1][u]].mutex = r1
        /\ msMutex[1] = r1

====
